---- MODULE Spec2Model ----
(***************************************************************************)
(* Time-Tracking-Software: the tracker (TrackerService, tracker.ts), the   *)
(* storage layer (StorageService, storage.ts) and the reset-today command  *)
(* (extension.ts), as one state machine.                                   *)
(*                                                                         *)
(* Time is counted in whole seconds: every duration the code fixes (idle   *)
(* threshold, heartbeat interval, debounce delay, length of a day) is a    *)
(* whole number of seconds, written there as x * 1000 ms.  A handler runs  *)
(* at one instant: every `new Date()` inside it reads the same `now`.      *)
(* Optional values (`x?: T`, `T | null`) are sequences of length 0 or 1.   *)
(*                                                                         *)
(* JavaScript objects are shared by reference.  The day record held by the *)
(* storage layer keeps, in its session list, the very TrackingSession      *)
(* object the tracker goes on mutating, and a session's `repositories`     *)
(* array keeps the very RepoActivity objects of `repoActivityMap`.  The    *)
(* model keeps such an entry as a reference (live = TRUE) and reads it     *)
(* through Deref...; it is replaced by its value at the moment the program *)
(* drops the object it points to (a new currentSession, a cleared map),    *)
(* after which nothing can change it any more.                             *)
(***************************************************************************)
EXTENDS Integers, Sequences, FiniteSets, TLC

(* ------------------------------ bounds --------------------------------- *)
\* number of handler runs (events, timer callbacks, commands) in a run
MaxSteps == 5
\* number of session ids handed out by generateSessionId in a run
MaxSessions == 4
\* number of identity resolutions (updateCurrentRepo calls) in flight at once
MaxPending == 1
\* the same, in the runs that look at the order of their completion
MaxInFlight == 2

(* ------------------------- program constants --------------------------- *)
idleThresholdMinutes == 3
SecondsPerMinute == 60
SecondsPerDay == 24 * 60 * SecondsPerMinute
\* config.idleThresholdMinutes * 60 * 1000 ms
idleThresholdMs == idleThresholdMinutes * SecondsPerMinute

\* setTimeout(..., 5000) of saveTodayData
saveDebounceMs == 5

\* The instants at which handlers run.  The run begins on day 0 shortly
\* before midnight; then come the instant exactly the idle threshold later,
\* the next second, the midnight that begins day 1 one second after that, and
\* the midnight that begins day 3.  The clock moves from one to any later one.
FirstInstant == SecondsPerDay - idleThresholdMs - 2
Instants ==
    {FirstInstant, FirstInstant + idleThresholdMs, FirstInstant + idleThresholdMs + 1,
     SecondsPerDay, 3 * SecondsPerDay}

(* ------------------------------ helpers -------------------------------- *)
Undefined == <<>>
Some(x) == <<x>>
IsDefined(o) == o # <<>>
Get(o) == o[1]

\* Array.prototype.findIndex: least index whose element satisfies Test, or 0
FindIndex(s, Test(_)) ==
    IF \E i \in 1..Len(s) : Test(s[i])
    THEN CHOOSE i \in 1..Len(s) : Test(s[i]) /\ \A j \in 1..(i-1) : ~Test(s[j])
    ELSE 0

\* Array.prototype.includes
Includes(s, x) == \E i \in 1..Len(s) : s[i] = x

\* new Date(t).toISOString().split('T')[0]: the UTC calendar date of instant
\* t, as the number of whole days since the epoch
DateString(t) == t \div SecondsPerDay

(* --------------------------- the environment --------------------------- *)
\* the files the editor can show; each lies in one repository
Files == {"a.ts", "b.ts"}
\* GitService.getRepoInfo on a file's directory: the repository root
RepoRootOf(f) == IF f = "a.ts" THEN "A" ELSE "B"
\* editor.document.languageId
LanguageIdOf(f) == "typescript"
\* vscode.workspace.workspaceFolders[0], when there is one
WorkspaceFolder == "A"

(* ------------------------------ data model ----------------------------- *)
\* LanguageTime: a map from language id to milliseconds
EmptyLanguages == [l \in {} |-> 0]
LangGet(m, l) == IF l \in DOMAIN m THEN m[l] ELSE 0
\* m[l] = (m[l] || 0) + t
LangAdd(m, l, t) == [k \in DOMAIN m \cup {l} |-> LangGet(m, k) + (IF k = l THEN t ELSE 0)]
LangMerge(m1, m2) == [k \in DOMAIN m1 \cup DOMAIN m2 |-> LangGet(m1, k) + LangGet(m2, k)]

\* RepoActivity.  live = TRUE makes the record a reference to the
\* object of repoActivityMap with the same key (its other fields unused).
RepoActivity(path, branch) ==
    [live |-> FALSE, repoPath |-> path, branchName |-> branch, timeSpent |-> 0,
     filesEdited |-> <<>>, languages |-> EmptyLanguages]
ActivityRef(a) == [RepoActivity(a.repoPath, a.branchName) EXCEPT !.live = TRUE]

\* the key `${repo.path}:${repo.branch}` of repoActivityMap
KeyOf(path, branch) == <<path, branch>>
MapIndex(map, key) == FindIndex(map, LAMBDA a : KeyOf(a.repoPath, a.branchName) = key)

DerefActivity(a, map) ==
    IF a.live THEN map[MapIndex(map, KeyOf(a.repoPath, a.branchName))] ELSE a

\* TrackingSession.  live = TRUE makes the record a reference to the
\* tracker's currentSession object (only sessionId is kept beside it).
NewSession(id, t) ==
    [live |-> FALSE, sessionId |-> id, startTime |-> t, endTime |-> Undefined,
     totalDuration |-> 0, activeTime |-> 0, idleTime |-> 0, repositories |-> <<>>]
SessionRef(s) == [NewSession(s.sessionId, 0) EXCEPT !.live = TRUE]

DerefRepositories(repos, map) ==
    [i \in 1..Len(repos) |-> DerefActivity(repos[i], map)]
\* the session an entry of a session list stands for, as JSON.stringify sees it
DerefSession(e, cs, map) ==
    LET s == IF e.live THEN cs ELSE e
    IN  [s EXCEPT !.live = FALSE, !.repositories = DerefRepositories(s.repositories, map)]
DerefSessions(ss, cs, map) == [i \in 1..Len(ss) |-> DerefSession(ss[i], cs, map)]
\* a day record with every reference replaced by the value it points to
DerefData(d, cs, map) == [d EXCEPT !.sessions = DerefSessions(d.sessions, cs, map)]

\* An entry once the tracker has dropped the currentSession object `cs`: the
\* reference becomes the session itself (its repositories still references).
DropSessionRef(e, cs) == IF e.live THEN cs ELSE e
\* A day record once currentSession is replaced; `clear` also resolves the
\* RepoActivity references, for repoActivityMap.clear().
DropRefs(d, cs, map, clear) ==
    [d EXCEPT !.sessions =
        [i \in 1..Len(d.sessions) |->
            LET s == DropSessionRef(d.sessions[i], cs)
            IN  IF clear THEN [s EXCEPT !.repositories = DerefRepositories(s.repositories, map)]
                ELSE s]]

(* ------------------------------- storage ------------------------------- *)
\* The storage layer is the record
\*   [currentDayData, saveDebounceTimer, files, strays, writable, writeLog]
\* files[d] is the content of the file <d>.json, when it exists: a day record,
\* or Unreadable.  strays are the other files of the storage directory, which
\* the program has not written.  writable tells whether writeFileSync
\* succeeds; writeLog is history: "none" until a write fails, "failed" after a
\* failed write, "recovered" after a write that succeeds later.  A pending
\* saveDebounceTimer holds the record its closure captured: the current one
\* (current = TRUE) or one that currentDayData no longer points to.  Its
\* `since` is history: the instant of the first of the saveTodayData calls
\* that no write has followed yet, the calls this timer stands for.
Dates == {DateString(t) : t \in Instants}

createEmptyDailyData(date) ==
    [date |-> date, totalTime |-> 0, activeTime |-> 0, idleTime |-> 0,
     sessions |-> <<>>, repositories |-> <<>>, languages |-> EmptyLanguages,
     emailSent |-> FALSE, emailSentAt |-> Undefined]

\* a file on which readFileSync or JSON.parse throws
Unreadable == [unreadable |-> TRUE]
\* JSON.parse(readFileSync(...)) returns
Parses(content) == "date" \in DOMAIN content

\* loadDailyData that never reads the file
loadDailyData_ignoresFile(S, date) == createEmptyDailyData(date)

loadDailyData(S, date) ==
    IF IsDefined(S.files[date]) /\ Parses(Get(S.files[date]))
    THEN Get(S.files[date])
    ELSE createEmptyDailyData(date)

TimerOnCurrent(due, since) ==
    [current |-> TRUE, data |-> createEmptyDailyData(0), due |-> due, since |-> since]
TimerOn(d, due, since) == [current |-> FALSE, data |-> d, due |-> due, since |-> since]
\* the record a pending timer will write
TimerData(S) ==
    IF Get(S.saveDebounceTimer).current THEN Get(S.currentDayData)
    ELSE Get(S.saveDebounceTimer).data

\* returns the storage layer after the call; the result of the call is its
\* currentDayData
getTodayData(S, today) ==
    IF IsDefined(S.currentDayData) /\ Get(S.currentDayData).date = today
    THEN S
    ELSE [S EXCEPT !.currentDayData = Some(loadDailyData(S, today)),
                   !.saveDebounceTimer =
                       IF IsDefined(@) /\ Get(@).current
                       THEN Some(TimerOn(Get(S.currentDayData), Get(@).due, Get(@).since))
                       ELSE @]

\* saveDailyData that lets go of the record in memory when the write fails
saveDailyData_forgetsOnFailure(S, data, cs, map) ==
    IF S.writable
    THEN [S EXCEPT !.files[data.date] = Some(DerefData(data, cs, map)),
                   !.writeLog = IF @ = "none" THEN @ ELSE "recovered"]
    ELSE [S EXCEPT !.currentDayData = Undefined, !.writeLog = "failed"]

\* `data` is written as JSON.stringify sees it at the call; a write that
\* fails is caught and reported, and changes nothing
saveDailyData(S, data, cs, map) ==
    IF S.writable
    THEN [S EXCEPT !.files[data.date] = Some(DerefData(data, cs, map)),
                   !.writeLog = IF @ = "none" THEN @ ELSE "recovered"]
    ELSE [S EXCEPT !.writeLog = "failed"]

\* every caller passes the record getTodayData has just returned; t is the
\* instant of the call
\* saveTodayData that leaves a pending timer as it is instead of clearing it
\* and setting a new one
saveTodayData_keepsPendingTimer(S, data, t) ==
    [S EXCEPT !.currentDayData = Some(data),
              !.saveDebounceTimer =
                  IF IsDefined(@) THEN @ ELSE Some(TimerOnCurrent(t + saveDebounceMs, t))]

saveTodayData(S, data, t) ==
    [S EXCEPT !.currentDayData = Some(data),
              !.saveDebounceTimer =
                  Some(TimerOnCurrent(t + saveDebounceMs,
                                      IF IsDefined(@) THEN Get(@).since ELSE t))]

\* the setTimeout callback of saveTodayData
saveDebounceCallback(S, cs, map) ==
    [saveDailyData(S, TimerData(S), cs, map) EXCEPT !.saveDebounceTimer = Undefined]

forceSave(S, cs, map) ==
    LET S1 == [S EXCEPT !.saveDebounceTimer = Undefined]
    IN  IF IsDefined(S1.currentDayData)
        THEN saveDailyData(S1, Get(S1.currentDayData), cs, map)
        ELSE S1

RECURSIVE AddUnique(_, _)
\* for (file of fs) if (!acc.includes(file)) acc.push(file)
AddUnique(acc, fs) ==
    IF fs = <<>> THEN acc
    ELSE AddUnique(IF Includes(acc, Head(fs)) THEN acc ELSE Append(acc, Head(fs)), Tail(fs))

RepoSummary(repo) ==
    [repoPath |-> repo.repoPath, branchesWorkedOn |-> <<repo.branchName>>,
     totalTime |-> repo.timeSpent, filesEdited |-> repo.filesEdited,
     languages |-> repo.languages]

RECURSIVE AggregateRepos(_, _)
\* the repoMap loop of recalculateTotals over one session's repositories
AggregateRepos(acc, repos) ==
    IF repos = <<>> THEN acc
    ELSE LET repo == Head(repos)
             i == FindIndex(acc, LAMBDA e : e.repoPath = repo.repoPath)
         IN  AggregateRepos(
                IF i > 0
                THEN [acc EXCEPT ![i] =
                        [@ EXCEPT !.totalTime = @ + repo.timeSpent,
                                  !.branchesWorkedOn =
                                      IF Includes(@, repo.branchName) THEN @
                                      ELSE Append(@, repo.branchName),
                                  !.filesEdited = AddUnique(@, repo.filesEdited),
                                  !.languages = LangMerge(@, repo.languages)]]
                ELSE Append(acc, RepoSummary(repo)),
                Tail(repos))

RECURSIVE SessionLanguages(_, _)
\* the reduce over one session's repositories
SessionLanguages(acc, repos) ==
    IF repos = <<>> THEN acc
    ELSE SessionLanguages(LangMerge(acc, Head(repos).languages), Tail(repos))

RECURSIVE FoldSessions(_, _)
\* the `for (const session of data.sessions)` loop; ss are the sessions as read
FoldSessions(d, ss) ==
    IF ss = <<>> THEN d
    ELSE LET session == Head(ss)
         IN  FoldSessions(
                [d EXCEPT !.totalTime = @ + session.totalDuration,
                          !.activeTime = @ + session.activeTime,
                          !.idleTime = @ + session.idleTime,
                          !.languages = LangMerge(@, SessionLanguages(EmptyLanguages, session.repositories)),
                          !.repositories = AggregateRepos(@, session.repositories)],
                Tail(ss))

\* a variant that rebuilds the record from an empty one
recalculateTotals_fromEmpty(data, cs, map) ==
    [FoldSessions(createEmptyDailyData(data.date), DerefSessions(data.sessions, cs, map))
        EXCEPT !.sessions = data.sessions]

recalculateTotals(data, cs, map) ==
    [FoldSessions([data EXCEPT !.totalTime = 0, !.activeTime = 0, !.idleTime = 0,
                               !.languages = EmptyLanguages, !.repositories = <<>>],
                  DerefSessions(data.sessions, cs, map))
        EXCEPT !.sessions = data.sessions]

\* updateSession without the lookup by id: the session is always pushed
updateSession_alwaysPushes(S, session, t, cs, map) ==
    LET S1 == getTodayData(S, DateString(t))
        data == Get(S1.currentDayData)
        sessions == Append(data.sessions, session)
    IN  saveTodayData(S1, recalculateTotals([data EXCEPT !.sessions = sessions], cs, map), t)

\* `session` is the entry put in the list: SessionRef(cs) when the caller
\* passes the tracker's currentSession object
updateSession(S, session, t, cs, map) ==
    LET S1 == getTodayData(S, DateString(t))
        data == Get(S1.currentDayData)
        id == DerefSession(session, cs, map).sessionId
        existingIndex == FindIndex(data.sessions, LAMBDA s : s.sessionId = id)
        sessions == IF existingIndex > 0
                    THEN [data.sessions EXCEPT ![existingIndex] = session]
                    ELSE Append(data.sessions, session)
    IN  saveTodayData(S1, recalculateTotals([data EXCEPT !.sessions = sessions], cs, map), t)

(* --------------------------- dates and windows ------------------------- *)
\* A date string is the number of the day since 1970-01-01; the time zone of
\* the process is its offset from UTC in hours.  The dates of the archive lie
\* in 1970, a year of 365 days.
MonthLengths == <<31, 28, 31, 30, 31, 30, 31, 31, 30, 31, 30, 31>>
\* Date.getDay: 0 is Sunday; 1970-01-01 was a Thursday
DayOfWeek(day) == (day + 4) % 7
RECURSIVE FirstOfMonthFrom(_, _, _)
FirstOfMonthFrom(day, month, first) ==
    IF day < first + MonthLengths[month] THEN first
    ELSE FirstOfMonthFrom(day, month + 1, first + MonthLengths[month])
\* the day of new Date(year, month, 1), new Date(year, 0, 1)
FirstOfMonth(day) == FirstOfMonthFrom(day, 1, 0)
FirstOfYear(day) == (day \div 365) * 365

\* the local calendar day of instant t: getFullYear/getMonth/getDate/getDay
LocalDay(t, tz) == (t + tz * 60 * SecondsPerMinute) \div SecondsPerDay
\* setHours(0, 0, 0, 0) on a local day: the instant of its local midnight
LocalMidnight(day, tz) == day * SecondsPerDay - tz * 60 * SecondsPerMinute
\* new Date("YYYY-MM-DD"): a date-only string is read as UTC midnight
NewDate(date) == date * SecondsPerDay

\* a variant that goes back to the Monday of the week before
getStartOfWeek_previousWeek(t, tz) ==
    LET result == LocalDay(t, tz)
        day == DayOfWeek(result)
        diff == ((day + 6) % 7) + 7
    IN  LocalMidnight(result - diff, tz)

getStartOfWeek(t, tz) ==
    LET result == LocalDay(t, tz)
        day == DayOfWeek(result)
        diff == (day + 6) % 7
    IN  LocalMidnight(result - diff, tz)

\* the window starts getAggregateTotals computes from `now`
WindowStarts(t, tz) ==
    [startOfWeek |-> getStartOfWeek(t, tz),
     startOfLast7 |-> LocalMidnight(LocalDay(t, tz) - 6, tz),
     startOfMonth |-> LocalMidnight(FirstOfMonth(LocalDay(t, tz)), tz),
     startOfYear |-> LocalMidnight(FirstOfYear(LocalDay(t, tz)), tz)]

EmptyTotals ==
    [last7Days |-> 0, overall |-> 0, weekToDate |-> 0, monthToDate |-> 0, yearToDate |-> 0]

\* the closure addData; acc is [processedDates, totals]
addData(acc, data, w) ==
    IF data.date \in acc.processedDates THEN acc
    ELSE LET dateObj == NewDate(data.date)
             Plus(sum, start) == IF dateObj >= start THEN sum + data.totalTime ELSE sum
         IN  [processedDates |-> acc.processedDates \cup {data.date},
              totals |->
                 [overall |-> acc.totals.overall + data.totalTime,
                  last7Days |-> Plus(acc.totals.last7Days, w.startOfLast7),
                  yearToDate |-> Plus(acc.totals.yearToDate, w.startOfYear),
                  monthToDate |-> Plus(acc.totals.monthToDate, w.startOfMonth),
                  weekToDate |-> Plus(acc.totals.weekToDate, w.startOfWeek)]]

RECURSIVE ReadDir(_)
\* fs.readdirSync: the <date>.json files that exist, in the order of their names
ReadDir(dates) ==
    IF dates = {} THEN <<>>
    ELSE LET first == CHOOSE d \in dates : \A e \in dates : d <= e
         IN  <<first>> \o ReadDir(dates \ {first})

RECURSIVE ScanFiles(_, _, _, _)
\* the `for (const file of files)` loop of getAggregateTotals over the
\* <date>.json files.  A stray file changes nothing: one not named *.json is
\* skipped, and for another loadDailyData gives a record whose date is the
\* stem of its name, which new Date() cannot read, so addData returns.
ScanFiles(acc, names, S, w) ==
    IF names = <<>> THEN acc
    ELSE ScanFiles(IF Head(names) \in acc.processedDates THEN acc
                   ELSE addData(acc, loadDailyData(S, Head(names)), w),
                   Tail(names), S, w)

\* returns the storage layer after the call and the totals
getAggregateTotals(S, t, tz) ==
    LET w == WindowStarts(t, tz)
        S1 == getTodayData(S, DateString(t))
        first == addData([processedDates |-> {}, totals |-> EmptyTotals],
                         Get(S1.currentDayData), w)
        names == ReadDir({d \in DOMAIN S1.files : IsDefined(S1.files[d])})
    IN  [storage |-> S1, totals |-> ScanFiles(first, names, S1, w).totals]

\* cutoffDate.setDate(cutoffDate.getDate() - 90)
retentionDays == 90

\* new Date(stem) for the stem of a stray file: an Invalid Date, whose
\* comparisons are all false
NewDateOfStray(stem) == Undefined

\* cleanupOldData whose cutoff lies two days further back
cleanupOldData_laterCutoff(S, t) ==
    LET cutoffDate == t - (retentionDays + 2) * SecondsPerDay
    IN  [S EXCEPT !.files =
            [d \in DOMAIN @ |->
                IF IsDefined(@[d]) /\ NewDate(d) < cutoffDate THEN Undefined ELSE @[d]]]

\* cleanupOldData that deletes every *.json file whose date is not known to
\* be at or after the cutoff
cleanupOldData_deletesUnlessRecent(S, t) ==
    LET cutoffDate == t - retentionDays * SecondsPerDay
    IN  [S EXCEPT !.files =
            [d \in DOMAIN @ |->
                IF IsDefined(@[d]) /\ NewDate(d) < cutoffDate THEN Undefined ELSE @[d]],
                  !.strays = {f \in @ : f.ext # "json"}]

cleanupOldData(S, t) ==
    LET cutoffDate == t - retentionDays * SecondsPerDay
    IN  [S EXCEPT !.files =
            [d \in DOMAIN @ |->
                IF IsDefined(@[d]) /\ NewDate(d) < cutoffDate THEN Undefined ELSE @[d]],
                  !.strays =
            {f \in @ : ~(/\ f.ext = "json"
                         /\ IsDefined(NewDateOfStray(f.stem))
                         /\ Get(NewDateOfStray(f.stem)) < cutoffDate)}]

(* ------------------------------ the report ----------------------------- *)
\* formatDuration: whole hours and the minutes left (the text is left out)
formatDuration(ms) ==
    LET totalMinutes == ms \div SecondsPerMinute
    IN  [hours |-> totalMinutes \div 60, minutes |-> totalMinutes % 60]

\* the comparator (a, b) => b.key - a.key, for key = totalTime or time
Compare(a, b) == b.key - a.key
RECURSIVE InsertSorted(_, _)
\* x put into the sorted sequence before the first element it compares
\* below (Compare < 0)
InsertSorted(x, sorted) ==
    IF sorted = <<>> THEN <<x>>
    ELSE IF Compare(x, Head(sorted)) < 0 THEN <<x>> \o sorted
    ELSE <<Head(sorted)>> \o InsertSorted(x, Tail(sorted))
RECURSIVE SortFrom(_, _)
SortFrom(done, rest) ==
    IF rest = <<>> THEN done
    ELSE SortFrom(InsertSorted(Head(rest), done), Tail(rest))
\* Array.prototype.sort with that comparator, which is stable: the elements
\* of s, each with its key, then the elements in their new order
Sort(s, Key(_)) ==
    LET keyed == [i \in 1..Len(s) |-> [key |-> Key(s[i]), item |-> s[i]]]
        sorted == SortFrom(<<>>, keyed)
    IN  [i \in 1..Len(s) |-> sorted[i].item]

RECURSIVE EntriesOf(_, _)
\* Object.entries of a LanguageTime whose keys were inserted in the order
\* `names`
EntriesOf(m, names) ==
    IF names = <<>> THEN <<>>
    ELSE (IF Head(names) \in DOMAIN m
          THEN <<[name |-> Head(names), time |-> m[Head(names)]]>> ELSE <<>>)
         \o EntriesOf(m, Tail(names))
RECURSIVE SumTimes(_)
SumTimes(entries) ==
    IF entries = <<>> THEN 0 ELSE Head(entries).time + SumTimes(Tail(entries))
\* Math.round(time / total * 100)
Percentage(time, total) == (200 * time + total) \div (2 * total)

\* prepareReportData that lists repositories and languages as it finds them
prepareReportData_unsorted(data, names, aggregates) ==
    LET entries == EntriesOf(data.languages, names)
        totalLanguageTime == SumTimes(entries)
    IN  [data |-> data,
         report |->
            [date |-> data.date,
             totalHours |-> formatDuration(data.totalTime).hours,
             totalMinutes |-> formatDuration(data.totalTime).minutes,
             activeHours |-> formatDuration(data.activeTime).hours,
             activeMinutes |-> formatDuration(data.activeTime).minutes,
             repositories |->
                 [i \in 1..Len(data.repositories) |->
                     LET repo == data.repositories[i]
                     IN  [name |-> repo.repoPath,
                          hours |-> formatDuration(repo.totalTime).hours,
                          minutes |-> formatDuration(repo.totalTime).minutes,
                          branches |-> repo.branchesWorkedOn,
                          filesCount |-> Len(repo.filesEdited)]],
             languages |->
                 [i \in 1..Len(entries) |->
                     [name |-> entries[i].name,
                      hours |-> formatDuration(entries[i].time).hours,
                      minutes |-> formatDuration(entries[i].time).minutes,
                      percentage |-> IF totalLanguageTime > 0
                                     THEN Percentage(entries[i].time, totalLanguageTime)
                                     ELSE 0]],
             sessionCount |-> Len(data.sessions),
             aggregates |->
                 [overall |-> formatDuration(aggregates.overall),
                  weekToDate |-> formatDuration(aggregates.weekToDate),
                  monthToDate |-> formatDuration(aggregates.monthToDate),
                  yearToDate |-> formatDuration(aggregates.yearToDate)]]]

\* names is the insertion order of the keys of data.languages.  Returns the
\* report and the record: data.repositories.sort sorts the record's own array.
prepareReportData(data, names, aggregates) ==
    LET sorted == Sort(data.repositories, LAMBDA repo : repo.totalTime)
        data1 == [data EXCEPT !.repositories = sorted]
        entries == Sort(EntriesOf(data.languages, names), LAMBDA e : e.time)
        totalLanguageTime == SumTimes(entries)
    IN  [data |-> data1,
         report |->
            [date |-> data.date,
             totalHours |-> formatDuration(data.totalTime).hours,
             totalMinutes |-> formatDuration(data.totalTime).minutes,
             activeHours |-> formatDuration(data.activeTime).hours,
             activeMinutes |-> formatDuration(data.activeTime).minutes,
             repositories |->
                 [i \in 1..Len(sorted) |->
                     LET repo == sorted[i]
                     IN  [name |-> repo.repoPath,
                          hours |-> formatDuration(repo.totalTime).hours,
                          minutes |-> formatDuration(repo.totalTime).minutes,
                          branches |-> repo.branchesWorkedOn,
                          filesCount |-> Len(repo.filesEdited)]],
             languages |->
                 [i \in 1..Len(entries) |->
                     [name |-> entries[i].name,
                      hours |-> formatDuration(entries[i].time).hours,
                      minutes |-> formatDuration(entries[i].time).minutes,
                      percentage |-> IF totalLanguageTime > 0
                                     THEN Percentage(entries[i].time, totalLanguageTime)
                                     ELSE 0]],
             sessionCount |-> Len(data.sessions),
             aggregates |->
                 [overall |-> formatDuration(aggregates.overall),
                  weekToDate |-> formatDuration(aggregates.weekToDate),
                  monthToDate |-> formatDuration(aggregates.monthToDate),
                  yearToDate |-> formatDuration(aggregates.yearToDate)]]]

(* ------------------------------- tracker ------------------------------- *)
\* no sendDailyReport has been called
NoMail == [calls |-> <<>>, started |-> 0, sent |-> [d \in Dates |-> 0]]

VARIABLES
    now,                \* the system clock
    steps,              \* handler runs so far
    state,              \* TrackerService.state: TrackingState
    currentSession,     \* TrackerService.currentSession
    repoActivityMap,    \* TrackerService.repoActivityMap, in insertion order
    heartbeatInterval,  \* TRUE while the setInterval of startHeartbeat is set
    storage,            \* the StorageService
    nextSessionId,      \* the next id generateSessionId hands out
    activeTextEditor,   \* vscode.window.activeTextEditor: the file shown, if any
    pending,            \* updateCurrentRepo calls awaiting the GitService
    rollovers,          \* history: rollovers[d] = day changes handled on date d
    totals,             \* what getAggregateTotals returned last, and the time
                        \* zone of the process it ran in
    report,             \* what prepareReportData returned last, and the record
                        \* it was called with
    mail                \* the EmailService: its sendDailyReport calls in flight
                        \* and, as history, the reports sent for each date

vars == <<now, steps, state, currentSession, repoActivityMap, heartbeatInterval,
          storage, nextSessionId, activeTextEditor, pending, rollovers, totals, report, mail>>

\* The tracker and the storage layer as one value W, so that a handler that
\* calls another (resetTodayData calls stop and start) composes them.
World ==
    [state |-> state, currentSession |-> currentSession,
     repoActivityMap |-> repoActivityMap, heartbeatInterval |-> heartbeatInterval,
     storage |-> storage, nextSessionId |-> nextSessionId, pending |-> pending]

Becomes(W) ==
    /\ state' = W.state
    /\ currentSession' = W.currentSession
    /\ repoActivityMap' = W.repoActivityMap
    /\ heartbeatInterval' = W.heartbeatInterval
    /\ storage' = W.storage
    /\ nextSessionId' = W.nextSessionId
    /\ pending' = W.pending

\* `focused` is vscode.window.state.focused when the state is built: TRUE at
\* activation; at a day change what the listener of onDidChangeWindowState,
\* registered as long as the tracker is tracking, has stored last
initializeState(t, focused) ==
    [isTracking |-> FALSE, sessionStart |-> t, lastActivityTime |-> t,
     currentRepo |-> Undefined, isWindowFocused |-> focused, isIdle |-> FALSE,
     sessionActiveTime |-> 0, sessionIdleTime |-> 0, idleStartTime |-> Undefined]

\* the new session object replaces currentSession: the day records that
\* referred to the old object now hold it
createNewSession(W, t, clear) ==
    LET Drop(d) == DropRefs(d, W.currentSession, W.repoActivityMap, clear)
    IN  [W EXCEPT !.currentSession = NewSession(W.nextSessionId, t),
                  !.nextSessionId = @ + 1,
                  !.storage.currentDayData = IF IsDefined(@) THEN Some(Drop(Get(@))) ELSE @,
                  !.storage.saveDebounceTimer =
                      IF IsDefined(@) /\ ~Get(@).current
                      THEN Some(TimerOn(Drop(Get(@).data), Get(@).due, Get(@).since))
                      ELSE @]

\* addTimeToRepo that adds nothing to the language total
addTimeToRepo_skipsLanguages(W, repo, timeMs) ==
    LET key == KeyOf(repo.path, repo.branch)
        map == IF MapIndex(W.repoActivityMap, key) = 0
               THEN Append(W.repoActivityMap, RepoActivity(repo.path, repo.branch))
               ELSE W.repoActivityMap
        i == MapIndex(map, key)
    IN  [W EXCEPT !.repoActivityMap = [map EXCEPT ![i].timeSpent = @ + timeMs]]

addTimeToRepo(W, repo, timeMs) ==
    LET key == KeyOf(repo.path, repo.branch)
        map == IF MapIndex(W.repoActivityMap, key) = 0
               THEN Append(W.repoActivityMap, RepoActivity(repo.path, repo.branch))
               ELSE W.repoActivityMap
        i == MapIndex(map, key)
    IN  [W EXCEPT !.repoActivityMap =
            [map EXCEPT ![i] =
                [@ EXCEPT !.timeSpent = @ + timeMs,
                          !.languages = IF IsDefined(repo.language)
                                        THEN LangAdd(@, Get(repo.language), timeMs)
                                        ELSE @]]]

finalizeRepoTime(W, repo, t) == addTimeToRepo(W, repo, t - repo.startTime)

\* exitIdleState that leaves idleStartTime as it is
exitIdleState_keepsAnchor(W, t) ==
    IF ~W.state.isIdle THEN W
    ELSE [W EXCEPT !.state.sessionIdleTime =
                       IF IsDefined(W.state.idleStartTime)
                       THEN @ + (t - Get(W.state.idleStartTime))
                       ELSE @,
                   !.state.isIdle = FALSE]

exitIdleState(W, t) ==
    IF ~W.state.isIdle THEN W
    ELSE [W EXCEPT !.state.sessionIdleTime =
                       IF IsDefined(W.state.idleStartTime)
                       THEN @ + (t - Get(W.state.idleStartTime))
                       ELSE @,
                   !.state.isIdle = FALSE,
                   !.state.idleStartTime = Undefined]

enterIdleState(W) ==
    IF W.state.isIdle THEN W
    ELSE [W EXCEPT !.state.isIdle = TRUE,
                   !.state.idleStartTime = Some(W.state.lastActivityTime)]

recordActivity(W, t) ==
    LET W1 == IF W.state.isIdle THEN exitIdleState(W, t) ELSE W
        W2 == IF IsDefined(W1.state.currentRepo)
              THEN addTimeToRepo(W1, Get(W1.state.currentRepo), t - W1.state.lastActivityTime)
              ELSE W1
    IN  [W2 EXCEPT !.state.lastActivityTime = t]

recordFileEdit(W, filePath) ==
    IF ~IsDefined(W.state.currentRepo) THEN W
    ELSE LET repo == Get(W.state.currentRepo)
             i == MapIndex(W.repoActivityMap, KeyOf(repo.path, repo.branch))
         IN  IF i > 0 /\ ~Includes(W.repoActivityMap[i].filesEdited, filePath)
             THEN [W EXCEPT !.repoActivityMap[i].filesEdited = Append(@, filePath)]
             ELSE W

\* updateTimeCounters that adds the running idle interval to idleTime and
\* leaves activeTime as computed before
updateTimeCounters_staleActiveTime(W, t) ==
    LET sessionDuration == t - W.currentSession.startTime
        cs == [W.currentSession EXCEPT
                  !.totalDuration = sessionDuration,
                  !.idleTime = W.state.sessionIdleTime,
                  !.activeTime = sessionDuration - W.state.sessionIdleTime]
    IN  IF W.state.isIdle /\ IsDefined(W.state.idleStartTime)
        THEN [W EXCEPT !.currentSession =
                 [cs EXCEPT !.idleTime = @ + (t - Get(W.state.idleStartTime))]]
        ELSE [W EXCEPT !.currentSession = cs]

updateTimeCounters(W, t) ==
    LET sessionDuration == t - W.currentSession.startTime
        cs == [W.currentSession EXCEPT
                  !.totalDuration = sessionDuration,
                  !.idleTime = W.state.sessionIdleTime,
                  !.activeTime = sessionDuration - W.state.sessionIdleTime]
    IN  IF W.state.isIdle /\ IsDefined(W.state.idleStartTime)
        THEN LET currentIdleTime == t - Get(W.state.idleStartTime)
             IN  [W EXCEPT !.currentSession =
                     [cs EXCEPT !.idleTime = @ + currentIdleTime,
                                !.activeTime = cs.totalDuration - (cs.idleTime + currentIdleTime)]]
        ELSE [W EXCEPT !.currentSession = cs]

\* Array.from(this.repoActivityMap.values()): the objects, not copies
MapValues(map) == [i \in 1..Len(map) |-> ActivityRef(map[i])]

saveCurrentSession(W, t) ==
    LET cs == [W.currentSession EXCEPT !.repositories = MapValues(W.repoActivityMap),
                                       !.endTime = Some(t)]
    IN  [W EXCEPT !.currentSession = cs,
                  !.storage = updateSession(W.storage, SessionRef(cs), t, cs, W.repoActivityMap)]

\* handleDayChange that resets the state and the map and keeps the closed
\* session as currentSession
handleDayChange_keepsSession(W, t) ==
    LET W1 == saveCurrentSession(W, t)
        W2 == [W1 EXCEPT !.storage = forceSave(W1.storage, W1.currentSession, W1.repoActivityMap)]
    IN  [W2 EXCEPT !.state = [initializeState(t, W.state.isWindowFocused)
                                 EXCEPT !.isTracking = TRUE],
                   !.currentSession.repositories = <<>>,
                   !.repoActivityMap = <<>>,
                   !.storage.currentDayData =
                       Some(DropRefs(Get(@), W2.currentSession, W2.repoActivityMap, TRUE))]

handleDayChange(W, t) ==
    LET W1 == saveCurrentSession(W, t)
        W2 == [W1 EXCEPT !.storage = forceSave(W1.storage, W1.currentSession, W1.repoActivityMap)]
        W3 == createNewSession(W2, t, TRUE)
    IN  [W3 EXCEPT !.state = [initializeState(t, W.state.isWindowFocused)
                                 EXCEPT !.isTracking = TRUE],
                   !.repoActivityMap = <<>>]

\* the day-change test of heartbeat
DayChanged(W, t) == DateString(t) # DateString(W.currentSession.startTime)

\* heartbeat whose idle test includes the threshold itself
heartbeat_inclusiveThreshold(W, t) ==
    IF ~W.state.isTracking THEN W
    ELSE IF DayChanged(W, t) THEN handleDayChange(W, t)
    ELSE LET timeSinceLastActivity == t - W.state.lastActivityTime
             W1 == IF ~W.state.isIdle /\ timeSinceLastActivity >= idleThresholdMs
                   THEN enterIdleState(W) ELSE W
             W2 == saveCurrentSession(updateTimeCounters(W1, t), t)
         IN  [W2 EXCEPT !.storage = getTodayData(@, DateString(t))]

heartbeat(W, t) ==
    IF ~W.state.isTracking THEN W
    ELSE IF DayChanged(W, t) THEN handleDayChange(W, t)
    ELSE LET timeSinceLastActivity == t - W.state.lastActivityTime
             W1 == IF ~W.state.isIdle /\ timeSinceLastActivity > idleThresholdMs
                   THEN enterIdleState(W) ELSE W
             W2 == saveCurrentSession(updateTimeCounters(W1, t), t)
         IN  [W2 EXCEPT !.storage = getTodayData(@, DateString(t))]

\* activeTextEditor?.document.languageId
EditorLanguage(editor) ==
    IF IsDefined(editor) THEN Some(LanguageIdOf(Get(editor))) ELSE Undefined

\* updateCurrentRepo up to its `await`: the call waits for the GitService.
\* root is the repository the path asked about lies in; editor is the editor
\* of the handleEditorChange that made the call, if one did.
Request(root, editor) == [root |-> root, editor |-> editor]
awaitRepoInfo(W, root, editor) == [W EXCEPT !.pending = Append(@, Request(root, editor))]

\* The answers of the GitService and of workspaceFolders?.[0]:
\*   "repo"   a GitRepoInfo for the root
\*   "folder" null, and there is a first workspace folder
\*   "none"   null, and there is no workspace folder
Outcomes == {"repo", "folder", "none"}

\* a variant that forgets the context when nothing resolves
updateCurrentRepoAfterAwait_dropsContext(W, req, outcome, t, editorNow) ==
    IF outcome = "repo"
    THEN [W EXCEPT !.state.currentRepo =
            Some([path |-> req.root, branch |-> "main", startTime |-> t,
                  language |-> EditorLanguage(editorNow), activeFile |-> editorNow])]
    ELSE [W EXCEPT !.state.currentRepo = Undefined]

\* updateCurrentRepo after its `await`
updateCurrentRepoAfterAwait(W, req, outcome, t, editorNow) ==
    LET repoInfo == IF outcome = "repo"
                    THEN Some([path |-> req.root, branch |-> "main"])
                    ELSE Undefined
        W1 == IF /\ IsDefined(W.state.currentRepo)
                 /\ IsDefined(repoInfo)
                 /\ Get(W.state.currentRepo).path # Get(repoInfo).path
              THEN finalizeRepoTime(W, Get(W.state.currentRepo), t)
              ELSE W
        Repo(path, branch) ==
            [path |-> path, branch |-> branch, startTime |-> t,
             language |-> EditorLanguage(editorNow), activeFile |-> editorNow]
        W2 == IF IsDefined(repoInfo)
              THEN [W1 EXCEPT !.state.currentRepo =
                        Some(Repo(Get(repoInfo).path, Get(repoInfo).branch))]
              ELSE IF outcome = "folder"
              THEN [W1 EXCEPT !.state.currentRepo = Some(Repo(WorkspaceFolder, "N/A"))]
              ELSE W1
    IN  W2

\* updateCurrentRepo after its `await`, followed by the rest of
\* handleEditorChange when that was the caller
resumeUpdateCurrentRepo(W, req, outcome, t, editorNow) ==
    LET W2 == updateCurrentRepoAfterAwait(W, req, outcome, t, editorNow)
    IN  IF IsDefined(req.editor) /\ IsDefined(W2.state.currentRepo)
        THEN [W2 EXCEPT !.state.currentRepo =
                Some([Get(@) EXCEPT !.language = EditorLanguage(req.editor),
                                    !.activeFile = req.editor])]
        ELSE W2

\* updateCurrentRepo() without a file path, up to its `await`; with neither
\* an editor nor a workspace folder it has nothing to wait for nor to do
updateCurrentRepo(W, editorNow, hasFolder) ==
    IF IsDefined(editorNow) THEN awaitRepoInfo(W, RepoRootOf(Get(editorNow)), Undefined)
    ELSE IF hasFolder THEN awaitRepoInfo(W, WorkspaceFolder, Undefined)
    ELSE W

start(W, t, editorNow, hasFolder) ==
    IF W.state.isTracking THEN W
    ELSE LET W1 == [W EXCEPT !.state.isTracking = TRUE,
                             !.state.sessionStart = t,
                             !.state.lastActivityTime = t]
             W2 == createNewSession(W1, t, FALSE)
         IN  updateCurrentRepo([W2 EXCEPT !.heartbeatInterval = TRUE], editorNow, hasFolder)

\* a variant that leaves the last write to the debounce timer
stop_withoutFlush(W, t) ==
    IF ~W.state.isTracking THEN W
    ELSE LET W1 == IF IsDefined(W.state.currentRepo)
                   THEN finalizeRepoTime(W, Get(W.state.currentRepo), t)
                   ELSE W
             W2 == saveCurrentSession(updateTimeCounters(W1, t), t)
         IN  [W2 EXCEPT !.heartbeatInterval = FALSE,
                        !.state.isTracking = FALSE]

stop(W, t) ==
    IF ~W.state.isTracking THEN W
    ELSE LET W1 == IF IsDefined(W.state.currentRepo)
                   THEN finalizeRepoTime(W, Get(W.state.currentRepo), t)
                   ELSE W
             W2 == saveCurrentSession(updateTimeCounters(W1, t), t)
         IN  [W2 EXCEPT !.storage = forceSave(W2.storage, W2.currentSession, W2.repoActivityMap),
                        !.heartbeatInterval = FALSE,
                        !.state.isTracking = FALSE]

handleWindowStateChange(W, focused, t) ==
    LET W1 == [W EXCEPT !.state.isWindowFocused = focused]
    IN  IF focused
        THEN LET W2 == recordActivity(W1, t)
             IN  IF W2.state.isIdle THEN exitIdleState(W2, t) ELSE W2
        ELSE [W1 EXCEPT !.state.idleStartTime = Some(t)]

handleEditorChange(W, editor, t) ==
    LET W1 == recordActivity(W, t)
    IN  IF IsDefined(editor)
        THEN awaitRepoInfo(W1, RepoRootOf(Get(editor)), editor)
        ELSE W1

\* getCurrentSession that takes the call for activity of the user
getCurrentSession_recordsActivity(W, t) ==
    LET W1 == updateTimeCounters(recordActivity(W, t), t)
    IN  [W1 EXCEPT !.currentSession.repositories = MapValues(W1.repoActivityMap)]

getCurrentSession(W, t) ==
    LET W1 == updateTimeCounters(W, t)
    IN  [W1 EXCEPT !.currentSession.repositories = MapValues(W1.repoActivityMap)]

\* extension.ts resetTodayData
resetTodayData(W, t, editorNow, hasFolder) ==
    LET W1 == stop(W, t)
        emptyData == createEmptyDailyData(DateString(t))
        W2 == [W1 EXCEPT !.storage = saveDailyData(@, emptyData, W1.currentSession,
                                                    W1.repoActivityMap)]
    IN  start(W2, t, editorNow, hasFolder)

(* ------------------------------- actions ------------------------------- *)
Init ==
    /\ now = FirstInstant
    /\ steps = 0
    /\ state = initializeState(FirstInstant, TRUE)
    /\ currentSession = NewSession(1, FirstInstant)
    /\ repoActivityMap = <<>>
    /\ heartbeatInterval = FALSE
    /\ storage = [currentDayData |-> Undefined, saveDebounceTimer |-> Undefined,
                  files |-> [d \in Dates |-> Undefined], strays |-> {},
                  writable |-> TRUE, writeLog |-> "none"]
    /\ nextSessionId = 2
    /\ activeTextEditor = Undefined
    /\ pending = <<>>
    /\ rollovers = [d \in Dates |-> 0]
    /\ totals = Undefined
    /\ report = Undefined
    /\ mail = NoMail

Step == steps < MaxSteps /\ steps' = steps + 1

\* The clock moves to a later instant.  A debounce timer that falls due on
\* the way runs its callback: nothing else runs between two instants.
Tick ==
    /\ \E t \in Instants : t > now /\ now' = t
    /\ storage' = IF IsDefined(storage.saveDebounceTimer)
                     /\ Get(storage.saveDebounceTimer).due <= now'
                  THEN saveDebounceCallback(storage, currentSession, repoActivityMap)
                  ELSE storage
    /\ UNCHANGED <<steps, state, currentSession, repoActivityMap, heartbeatInterval,
                   nextSessionId, activeTextEditor, pending, rollovers, totals, report, mail>>

\* the room a handler needs within the bounds
CanCreateSession == nextSessionId <= MaxSessions
CanAwait == Len(pending) < MaxPending

\* activate() calls trackerService.start()
Start ==
    /\ ~state.isTracking
    /\ CanCreateSession /\ CanAwait
    /\ \E hasFolder \in BOOLEAN : Becomes(start(World, now, activeTextEditor, hasFolder))
    /\ Step /\ UNCHANGED <<now, activeTextEditor, rollovers, totals, report, mail>>

\* deactivate() / dispose() call trackerService.stop()
Stop ==
    /\ state.isTracking
    /\ Becomes(stop(World, now))
    /\ Step /\ UNCHANGED <<now, activeTextEditor, rollovers, totals, report, mail>>

\* the setInterval callback
Heartbeat ==
    /\ heartbeatInterval
    /\ DayChanged(World, now) => CanCreateSession
    /\ Becomes(heartbeat(World, now))
    /\ rollovers' = IF state.isTracking /\ DayChanged(World, now)
                    THEN [rollovers EXCEPT ![DateString(now)] = @ + 1]
                    ELSE rollovers
    /\ Step /\ UNCHANGED <<now, activeTextEditor, totals, report, mail>>

\* onDidChangeWindowState
WindowStateChange ==
    /\ state.isTracking
    /\ \E focused \in BOOLEAN : Becomes(handleWindowStateChange(World, focused, now))
    /\ Step /\ UNCHANGED <<now, activeTextEditor, rollovers, totals, report, mail>>

\* onDidChangeTextDocument with content changes
TextDocumentChange ==
    /\ state.isTracking
    /\ Becomes(recordActivity(World, now))
    /\ Step /\ UNCHANGED <<now, activeTextEditor, rollovers, totals, report, mail>>

\* the active editor changes; onDidChangeActiveTextEditor while listening.
\* room is the number of resolutions that may be in flight after it.
EditorChange(room) ==
    \E editor \in {Undefined} \cup {Some(f) : f \in Files} :
        /\ editor # activeTextEditor
        /\ activeTextEditor' = editor
        /\ IF state.isTracking
           THEN /\ IsDefined(editor) => Len(pending) < room
                /\ Becomes(handleEditorChange(World, editor, now))
           ELSE Becomes(World)
        /\ Step /\ UNCHANGED <<now, rollovers, totals, report, mail>>

ActiveEditorChange == EditorChange(MaxPending)

\* onDidSaveTextDocument, for the document of the active editor
SaveTextDocument ==
    /\ state.isTracking
    /\ IsDefined(activeTextEditor)
    /\ Becomes(recordFileEdit(recordActivity(World, now), Get(activeTextEditor)))
    /\ Step /\ UNCHANGED <<now, activeTextEditor, rollovers, totals, report, mail>>

\* onDidChangeWorkspaceFolders
WorkspaceFoldersChange ==
    /\ state.isTracking
    /\ CanAwait
    /\ \E hasFolder \in BOOLEAN : Becomes(updateCurrentRepo(World, activeTextEditor, hasFolder))
    /\ Step /\ UNCHANGED <<now, activeTextEditor, rollovers, totals, report, mail>>

\* the GitService answers one of the calls in flight
RepoResolved ==
    \E i \in 1..Len(pending), outcome \in Outcomes :
        LET W == [World EXCEPT !.pending =
                    SubSeq(pending, 1, i - 1) \o SubSeq(pending, i + 1, Len(pending))]
        IN  /\ Becomes(resumeUpdateCurrentRepo(W, pending[i], outcome, now, activeTextEditor))
            /\ Step /\ UNCHANGED <<now, activeTextEditor, rollovers, totals, report, mail>>

\* the public TrackerService.getCurrentSession
GetCurrentSession ==
    /\ Becomes(getCurrentSession(World, now))
    /\ Step /\ UNCHANGED <<now, activeTextEditor, rollovers, totals, report, mail>>

\* showStatistics reads storageService.getTodayData()
ShowStatistics ==
    /\ storage' = getTodayData(storage, DateString(now))
    /\ Step /\ UNCHANGED <<now, state, currentSession, repoActivityMap, heartbeatInterval,
                   nextSessionId, activeTextEditor, pending, rollovers, totals, report, mail>>

\* the timeTracker.resetToday command, confirmed
ResetToday ==
    /\ CanCreateSession /\ CanAwait
    /\ \E hasFolder \in BOOLEAN :
          Becomes(resetTodayData(World, now, activeTextEditor, hasFolder))
    /\ Step /\ UNCHANGED <<now, activeTextEditor, rollovers, totals, report, mail>>

Next ==
    \/ Tick
    \/ Start
    \/ Stop
    \/ Heartbeat
    \/ WindowStateChange
    \/ TextDocumentChange
    \/ ActiveEditorChange
    \/ SaveTextDocument
    \/ WorkspaceFoldersChange
    \/ RepoResolved
    \/ GetCurrentSession
    \/ ShowStatistics
    \/ ResetToday

Spec == Init /\ [][Next]_vars

(* --------------------------- a disk that fails ------------------------- *)
\* writes begin to fail (disk full, directory gone) or succeed again
DiskChange ==
    /\ storage' = [storage EXCEPT !.writable = ~@]
    /\ UNCHANGED <<now, steps, state, currentSession, repoActivityMap, heartbeatInterval,
                   nextSessionId, activeTextEditor, pending, rollovers, totals, report, mail>>

\* the saving paths of the tracker, over a disk that may fail
NextFaulty ==
    \/ Tick
    \/ Start
    \/ Stop
    \/ Heartbeat
    \/ TextDocumentChange
    \/ ShowStatistics
    \/ DiskChange

SpecFaulty == Init /\ [][NextFaulty]_vars

(* ------------------------ a clock that is set back --------------------- *)
\* The system clock is set to an earlier instant (a correction of the time,
\* a change of time zone data).  Timers run on elapsed time and are not
\* touched.
ClockBack ==
    /\ Step
    /\ \E t \in Instants : t < now /\ now' = t
    /\ UNCHANGED <<state, currentSession, repoActivityMap, heartbeatInterval,
                   storage, nextSessionId, activeTextEditor, pending, rollovers, totals, report, mail>>

\* the events that bill time, under a clock that moves either way
NextSkew ==
    \/ Tick
    \/ ClockBack
    \/ Start
    \/ Heartbeat
    \/ WindowStateChange
    \/ TextDocumentChange
    \/ ActiveEditorChange
    \/ RepoResolved

SpecSkew == Init /\ [][NextSkew]_vars

(* ----------------------- resolutions in flight -------------------------- *)
\* an editor change while the resolution of an earlier one is in flight
EditorChangeInFlight == EditorChange(MaxInFlight)

\* editor changes and the completion of their identity resolutions, in any
\* order
NextOrdering ==
    \/ Tick
    \/ Start
    \/ EditorChangeInFlight
    \/ RepoResolved

SpecOrdering == Init /\ [][NextOrdering]_vars

(* --------------------------- a process restart ------------------------- *)
\* The editor is opened again after a deactivate(): activate() builds a new
\* StorageService and a new TrackerService over the files the earlier
\* process left, starts the tracker and reads today's record.  What the
\* earlier process held in memory is gone.
activate(W, t, editorNow, hasFolder) ==
    LET S == [W.storage EXCEPT !.currentDayData = Undefined,
                               !.saveDebounceTimer = Undefined]
        W1 == [W EXCEPT !.state = initializeState(t, TRUE),
                        !.currentSession = NewSession(W.nextSessionId, t),
                        !.nextSessionId = @ + 1,
                        !.repoActivityMap = <<>>,
                        !.heartbeatInterval = FALSE,
                        !.pending = <<>>,
                        !.storage = S]
        W2 == start(W1, t, editorNow, hasFolder)
    IN  [W2 EXCEPT !.storage = getTodayData(@, DateString(t))]

Activate ==
    /\ ~state.isTracking
    /\ nextSessionId > 2
    /\ nextSessionId + 1 <= MaxSessions
    /\ \E hasFolder \in BOOLEAN : Becomes(activate(World, now, activeTextEditor, hasFolder))
    /\ Step /\ UNCHANGED <<now, activeTextEditor, rollovers, totals, report, mail>>

\* runs of the tracker, each in a process of its own
NextRestart ==
    \/ Tick
    \/ (nextSessionId = 2 /\ Start)
    \/ Stop
    \/ Heartbeat
    \/ TextDocumentChange
    \/ RepoResolved
    \/ Activate

SpecRestart == Init /\ [][NextRestart]_vars

(* ------------------------------ the archive ---------------------------- *)
\* A process that runs on Monday 1970-04-06 (day 95) over a storage directory
\* left by earlier runs: the aggregation and the retention pass.
\* The instants of the run: 02:00 and 22:00 UTC of that day.
ArchiveInstants == {95 * SecondsPerDay + h * 60 * SecondsPerMinute : h \in {2, 22}}
\* The dates a file may be there for: 1970-01-01; the days 91 and 89 days
\* before the run; the Monday, the 31st, the 1st and the Sunday before it; today
ArchiveDates == {0, 4, 6, 88, 89, 90, 94, 95}
\* the time zones the process may run in, as hours from UTC
TimeZones == {-5, 0, 9}
\* files of the directory that are not day records: one named like a record
\* file, one not
StrayFiles == {[stem |-> "notes", ext |-> "json"], [stem |-> "notes", ext |-> "txt"]}

\* the record an earlier run has left for the date: one closed session, of a
\* length that tells the dates apart in a sum
ArchivedRecord(date) ==
    LET length == 2 ^ Cardinality({d \in ArchiveDates : d < date})
        session == [NewSession(0, NewDate(date)) EXCEPT
                       !.endTime = Some(NewDate(date) + length),
                       !.totalDuration = length, !.activeTime = length]
    IN  recalculateTotals([createEmptyDailyData(date) EXCEPT !.sessions = <<session>>],
                          session, <<>>)

\* The tracker has been running for a minute; of the files, at most one is
\* missing and at most one is unreadable.
InitArchive ==
    /\ now \in ArchiveInstants
    /\ steps = 0
    /\ state = [initializeState(now - SecondsPerMinute, TRUE) EXCEPT !.isTracking = TRUE]
    /\ currentSession = NewSession(1, now - SecondsPerMinute)
    /\ repoActivityMap = <<>>
    /\ heartbeatInterval = TRUE
    /\ \E missing \in SUBSET ArchiveDates, unreadable \in SUBSET ArchiveDates,
          strays \in {{}, StrayFiles} :
          /\ Cardinality(missing) <= 1 /\ Cardinality(unreadable) <= 1
          /\ missing \cap unreadable = {}
          /\ storage = [currentDayData |-> Undefined, saveDebounceTimer |-> Undefined,
                        files |-> [d \in ArchiveDates |->
                                      IF d \in missing THEN Undefined
                                      ELSE IF d \in unreadable THEN Some(Unreadable)
                                      ELSE Some(ArchivedRecord(d))],
                        strays |-> strays, writable |-> TRUE, writeLog |-> "none"]
    /\ nextSessionId = 2
    /\ activeTextEditor = Undefined
    /\ pending = <<>>
    /\ rollovers = [d \in Dates |-> 0]
    /\ totals = Undefined
    /\ report = Undefined
    /\ mail = NoMail

\* the setInterval callback, as often as it comes
HeartbeatOfArchive ==
    /\ heartbeatInterval
    /\ ~DayChanged(World, now)
    /\ Becomes(heartbeat(World, now))
    /\ UNCHANGED <<now, steps, activeTextEditor, rollovers, totals, report, mail>>

\* sendDailyReport asks for the aggregate totals
GetAggregateTotals ==
    \E tz \in TimeZones :
        LET r == getAggregateTotals(storage, now, tz)
        IN  /\ storage' = r.storage
            /\ totals' = Some([tz |-> tz, totals |-> r.totals])
            /\ UNCHANGED <<now, steps, state, currentSession, repoActivityMap,
                           heartbeatInterval, nextSessionId, activeTextEditor, pending,
                           rollovers, report, mail>>

\* activate() runs the retention pass
CleanupOldData ==
    /\ storage' = cleanupOldData(storage, now)
    /\ UNCHANGED <<now, steps, state, currentSession, repoActivityMap, heartbeatInterval,
                   nextSessionId, activeTextEditor, pending, rollovers, totals, report, mail>>

NextArchive ==
    \/ HeartbeatOfArchive
    \/ GetAggregateTotals
    \/ CleanupOldData

SpecArchive == InitArchive /\ [][NextArchive]_vars

(* --------------------------- the daily report -------------------------- *)
\* The report is prepared from a day record as runs of the tracker may have
\* left it: up to three repositories and three languages, in any order of
\* their times, equal times among them.
ReportTimes == {0, SecondsPerMinute, 61 * SecondsPerMinute}
ReportRepos == {"A", "B", "C"}
ReportLanguages == <<"typescript", "json", "markdown">>
ReportSessions == 0..2

\* the sequences without repetition over a set
RECURSIVE Arrangements(_)
Arrangements(S) ==
    {<<>>} \cup UNION {{<<x>> \o rest : rest \in Arrangements(S \ {x})} : x \in S}

ReportRecord(paths, time, langs, n) ==
    [createEmptyDailyData(DateString(FirstInstant)) EXCEPT
        !.repositories =
            [i \in 1..Len(paths) |->
                [RepoSummary(RepoActivity(paths[i], "main")) EXCEPT !.totalTime = time[paths[i]]]],
        !.languages = langs,
        !.sessions = [i \in 1..n |-> NewSession(i, FirstInstant)]]

InitReport ==
    /\ now = FirstInstant
    /\ steps = 0
    /\ state = initializeState(FirstInstant, TRUE)
    /\ currentSession = NewSession(1, FirstInstant)
    /\ repoActivityMap = <<>>
    /\ heartbeatInterval = FALSE
    /\ \E paths \in Arrangements(ReportRepos), time \in [ReportRepos -> ReportTimes],
          names \in SUBSET {ReportLanguages[i] : i \in 1..Len(ReportLanguages)},
          n \in ReportSessions :
          \E langs \in [names -> ReportTimes] :
             /\ \A p \in ReportRepos : Includes(paths, p) \/ time[p] = 0
             /\ storage = [currentDayData |-> Some(ReportRecord(paths, time, langs, n)),
                           saveDebounceTimer |-> Undefined,
                           files |-> [d \in Dates |-> Undefined], strays |-> {},
                           writable |-> TRUE, writeLog |-> "none"]
    /\ nextSessionId = 2
    /\ activeTextEditor = Undefined
    /\ pending = <<>>
    /\ rollovers = [d \in Dates |-> 0]
    /\ totals = Undefined
    /\ report = Undefined
    /\ mail = NoMail

\* sendDailyReport up to the sending: today's record, the aggregate totals,
\* the report data
PrepareReport ==
    /\ report = Undefined
    /\ LET S == getTodayData(storage, DateString(now))
           a == getAggregateTotals(S, now, 0)
           r == prepareReportData(Get(a.storage.currentDayData), ReportLanguages, a.totals)
       IN  /\ storage' = [a.storage EXCEPT !.currentDayData = Some(r.data)]
           /\ report' = Some([input |-> Get(storage.currentDayData), data |-> r.report])
    /\ UNCHANGED <<now, steps, state, currentSession, repoActivityMap, heartbeatInterval,
                   nextSessionId, activeTextEditor, pending, rollovers, totals, mail>>

NextReport == PrepareReport

SpecReport == InitReport /\ [][NextReport]_vars

(* ------------------------- sending the daily report -------------------- *)
\* sendDailyReport is async: it awaits the password and then the mail
\* transport, and other handlers and other calls of it run meanwhile.  The
\* scheduled timer, the timeTracker.sendReport command and sendOnClose all
\* call it.
MaxReportCalls == 2

\* returns the storage layer after the call and the result of the call
wasEmailSentToday(S, t) ==
    LET S1 == getTodayData(S, DateString(t))
    IN  [storage |-> S1, result |-> Get(S1.currentDayData).emailSent]

\* a variant that sets the flag in memory and leaves the write to the timer
markEmailSent_withoutForceSave(S, t, cs, map) ==
    LET S1 == getTodayData(S, DateString(t))
        data == [Get(S1.currentDayData) EXCEPT !.emailSent = TRUE, !.emailSentAt = Some(t)]
    IN  saveTodayData(S1, data, t)

markEmailSent(S, t, cs, map) ==
    LET S1 == getTodayData(S, DateString(t))
        data == [Get(S1.currentDayData) EXCEPT !.emailSent = TRUE, !.emailSentAt = Some(t)]
    IN  forceSave(saveTodayData(S1, data, t), cs, map)

\* sendDailyReport up to `await this.getPassword()` (the e-mail settings are
\* taken as configured): a call that goes on waits in mail.calls
sendDailyReport(S, M, t) ==
    LET r == wasEmailSentToday(S, t)
    IN  [storage |-> r.storage,
         mail |-> [M EXCEPT !.started = @ + 1,
                            !.calls = IF r.result THEN @
                                      ELSE Append(@, [at |-> "getPassword", date |-> 0])]]

\* the calls in flight without the i-th
WithoutCall(calls, i) == SubSeq(calls, 1, i - 1) \o SubSeq(calls, i + 1, Len(calls))

\* sendDailyReport from the answer of getPassword to `await this.sendEmail`
sendDailyReportWithPassword(S, M, i, password, t) ==
    IF ~password
    THEN [storage |-> S, mail |-> [M EXCEPT !.calls = WithoutCall(@, i)]]
    ELSE LET S1 == getTodayData(S, DateString(t))
             a == getAggregateTotals(S1, t, 0)
             r == prepareReportData(Get(a.storage.currentDayData), ReportLanguages, a.totals)
             S2 == [a.storage EXCEPT !.currentDayData = Some(r.data)]
         IN  IF r.report.totalHours = 0 /\ r.report.totalMinutes = 0
             THEN [storage |-> S2, mail |-> [M EXCEPT !.calls = WithoutCall(@, i)]]
             ELSE [storage |-> S2,
                   mail |-> [M EXCEPT !.calls[i] = [at |-> "sendEmail",
                                                    date |-> r.report.date]]]

\* sendDailyReport after `await this.sendEmail`: the transport has delivered
\* the report (mail.sent counts it) or has thrown
sendDailyReportAfterSend(S, M, i, delivered, t, cs, map) ==
    IF delivered
    THEN [storage |-> markEmailSent(S, t, cs, map),
          mail |-> [M EXCEPT !.calls = WithoutCall(@, i),
                             !.sent[M.calls[i].date] = @ + 1]]
    ELSE [storage |-> S, mail |-> [M EXCEPT !.calls = WithoutCall(@, i)]]

\* the scheduled timer fires, the command is run, or sendOnClose is called
SendDailyReport ==
    /\ mail.started < MaxReportCalls
    /\ LET r == sendDailyReport(storage, mail, now)
       IN  storage' = r.storage /\ mail' = r.mail
    /\ UNCHANGED <<now, steps, state, currentSession, repoActivityMap, heartbeatInterval,
                   nextSessionId, activeTextEditor, pending, rollovers, totals, report>>

\* getPassword answers a call
PasswordResolved ==
    \E i \in 1..Len(mail.calls), password \in BOOLEAN :
        /\ mail.calls[i].at = "getPassword"
        /\ LET r == sendDailyReportWithPassword(storage, mail, i, password, now)
           IN  storage' = r.storage /\ mail' = r.mail
        /\ UNCHANGED <<now, steps, state, currentSession, repoActivityMap,
                       heartbeatInterval, nextSessionId, activeTextEditor, pending,
                       rollovers, totals, report>>

\* the mail transport answers a call
EmailResolved ==
    \E i \in 1..Len(mail.calls), delivered \in BOOLEAN :
        /\ mail.calls[i].at = "sendEmail"
        /\ LET r == sendDailyReportAfterSend(storage, mail, i, delivered, now,
                                             currentSession, repoActivityMap)
           IN  storage' = r.storage /\ mail' = r.mail
        /\ UNCHANGED <<now, steps, state, currentSession, repoActivityMap,
                       heartbeatInterval, nextSessionId, activeTextEditor, pending,
                       rollovers, totals, report>>

NextMail ==
    \/ Tick
    \/ Start
    \/ Stop
    \/ Heartbeat
    \/ RepoResolved
    \/ SendDailyReport
    \/ PasswordResolved
    \/ EmailResolved

SpecMail == Init /\ [][NextMail]_vars

(* --------------------------- what is observed -------------------------- *)
\* the day record the storage layer holds, as a reader sees it
InMemoryRecords ==
    IF IsDefined(storage.currentDayData)
    THEN {DerefData(Get(storage.currentDayData), currentSession, repoActivityMap)}
    ELSE {}
\* the records on disk
PersistedRecords ==
    {Get(storage.files[d]) :
        d \in {e \in DOMAIN storage.files :
                  IsDefined(storage.files[e]) /\ Parses(Get(storage.files[e]))}}
AllRecords == InMemoryRecords \cup PersistedRecords
SessionsOf(d) == {d.sessions[i] : i \in 1..Len(d.sessions)}
\* every session handed to storage, and the tracker's own
SavedSessions == UNION {SessionsOf(d) : d \in AllRecords}
MaterializedSessions ==
    SavedSessions \cup {DerefSession(currentSession, currentSession, repoActivityMap)}

RECURSIVE SumTimeSpent(_)
SumTimeSpent(repos) ==
    IF repos = <<>> THEN 0 ELSE Head(repos).timeSpent + SumTimeSpent(Tail(repos))
RECURSIVE SumTotalDuration(_)
SumTotalDuration(ss) ==
    IF ss = <<>> THEN 0 ELSE Head(ss).totalDuration + SumTotalDuration(Tail(ss))

\* timeSpent of the RepoActivity with the key, 0 when the map has none
TimeSpentOf(map, key) ==
    IF MapIndex(map, key) = 0 THEN 0 ELSE map[MapIndex(map, key)].timeSpent

\* the step is a run of the heartbeat callback while tracking
HeartbeatStep ==
    /\ steps' = steps + 1 /\ now' = now
    /\ state.isTracking
    /\ World' = heartbeat(World, now)

(* -------------------------------- claims ------------------------------- *)

\* C1: every materialized or saved session satisfies
\* activeTime + idleTime = totalDuration, also while an idle interval is in
\* progress.
C1_Conservation ==
    \A s \in MaterializedSessions : s.activeTime + s.idleTime = s.totalDuration
\* a session saved while idle, the running idle interval counted in
C1_Witness ==
    /\ state.isIdle
    /\ \E s \in SavedSessions :
          /\ s.sessionId = currentSession.sessionId
          /\ s.idleTime > state.sessionIdleTime

\* C2: the timeSpent of a session's repositories never sums to more than the
\* session's totalDuration.
C2_NoDoubleCounting ==
    \A s \in MaterializedSessions : SumTimeSpent(s.repositories) <= s.totalDuration

\* C3: an activity event that ends an idle interval adds nothing to any
\* context's timeSpent: the interval since the last activity was idle.
C3_IdleNeverBilled ==
    [][(state.isIdle /\ ~state'.isIdle)
         => \A i \in 1..Len(repoActivityMap') :
               LET a == repoActivityMap'[i]
               IN  a.timeSpent <= TimeSpentOf(repoActivityMap, KeyOf(a.repoPath, a.branchName))]_vars

\* C4: when the context changes from one project to another at an instant up
\* to which the old project has been billed already (the editor change has
\* recorded the activity), the change itself bills the old project nothing
\* more: no millisecond is billed twice.
C4_ContextSwitchBilling ==
    [][(/\ IsDefined(state.currentRepo) /\ IsDefined(state'.currentRepo)
        /\ Get(state.currentRepo).path # Get(state'.currentRepo).path
        /\ state.lastActivityTime = now /\ now' = now)
         => LET old == Get(state.currentRepo)
                key == KeyOf(old.path, old.branch)
            IN  TimeSpentOf(repoActivityMap', key) = TimeSpentOf(repoActivityMap, key)]_vars

\* C5: the heartbeat that finds the date changed leaves the old session
\* closed in the record of the day it started on, with a totalDuration that
\* reaches up to the rollover, and today's record holds no session of
\* another day.
C5_DayRollover ==
    [][(HeartbeatStep /\ DayChanged(World, now))
         => LET old == currentSession
                D == DateString(old.startTime)
            IN  /\ IsDefined(storage'.files[D])
                /\ \E s \in SessionsOf(Get(storage'.files[D])) :
                      /\ s.sessionId = old.sessionId
                      /\ IsDefined(s.endTime)
                      /\ s.totalDuration = now - old.startTime
                /\ \A d \in InMemoryRecords' : \A s \in SessionsOf(d) :
                      DateString(s.startTime) = d.date]_vars

\* C6: on one date at most one heartbeat handles a day change, however many
\* midnights the clock has passed; once it has, the session is dated today,
\* so later heartbeats of that date handle none.
C6_RolloverOncePerDate ==
    /\ \A d \in Dates : rollovers[d] <= 1
    /\ rollovers[DateString(now)] >= 1 => ~DayChanged(World, now)
\* a rollover after a gap of three days, day 1 skipped, and a later heartbeat
C6_Witness ==
    /\ rollovers[DateString(3 * SecondsPerDay)] = 1
    /\ rollovers[DateString(SecondsPerDay)] = 0
    /\ state.isTracking
    /\ IsDefined(currentSession.endTime)

\* C7 as stated: a heartbeat in the Active state makes the engine Idle if
\* and only if now - lastActivityTime exceeds the idle threshold.
C7_IdleThresholdAnyHeartbeat ==
    [][(HeartbeatStep /\ ~state.isIdle)
         => (state'.isIdle <=> now - state.lastActivityTime > idleThresholdMs)]_vars
\* C7 amended: a heartbeat in the Active state that finds no day change
\* makes the engine Idle if and only if now - lastActivityTime exceeds the
\* idle threshold.
C7_IdleThreshold ==
    [][(HeartbeatStep /\ ~state.isIdle /\ ~DayChanged(World, now))
         => (state'.isIdle <=> now - state.lastActivityTime > idleThresholdMs)]_vars
\* idle entered one second past the threshold
C7_Witness ==
    /\ state.isIdle
    /\ IsDefined(state.idleStartTime)
    /\ now - Get(state.idleStartTime) = idleThresholdMs + 1
    /\ state.lastActivityTime = Get(state.idleStartTime)

\* the sessions updateSession is tried with: the tracker's currentSession
\* object, and a session of another process run, read from its JSON
UpsertCandidates ==
    {SessionRef(currentSession),
     [NewSession(nextSessionId, now) EXCEPT
         !.endTime = Some(now), !.totalDuration = 7, !.activeTime = 5, !.idleTime = 2,
         !.repositories = <<[RepoActivity("A", "main") EXCEPT
                                !.timeSpent = 4, !.filesEdited = <<"a.ts">>,
                                !.languages = LangAdd(EmptyLanguages, "typescript", 4)]>>]}

\* C8: updateSession called a second time with the same unchanged session
\* leaves the storage layer (the day record with its session list, totals,
\* repositories and languages) as the first call left it.
C8_UpsertIdempotent ==
    \A session \in UpsertCandidates :
        LET S1 == updateSession(storage, session, now, currentSession, repoActivityMap)
            S2 == updateSession(S1, session, now, currentSession, repoActivityMap)
        IN  S2 = S1
\* today's record holds the current session beside another one
C8_Witness ==
    \E d \in InMemoryRecords :
        /\ d.date = DateString(now)
        /\ Len(d.sessions) >= 2
        /\ \E s \in SessionsOf(d) : s.sessionId = currentSession.sessionId /\ s.totalDuration > 0

\* C9: the day record in memory and every record on disk have
\* totalTime = the sum of totalDuration over their sessions and
\* activeTime + idleTime = totalTime.
C9_DayRecordInvariant ==
    \A d \in AllRecords :
        /\ d.totalTime = SumTotalDuration(d.sessions)
        /\ d.activeTime + d.idleTime = d.totalTime

\* the step is a run of the reset-today command
ResetStep ==
    /\ steps' = steps + 1 /\ now' = now
    /\ \E hasFolder \in BOOLEAN :
          World' = resetTodayData(World, now, activeTextEditor, hasFolder)

\* C10: right after the reset-today command, today's record as getTodayData
\* returns it holds no session, time or repository from before the reset: at
\* most the session the reset has started.
C10_ResetToday ==
    [][ResetStep
         => LET S == getTodayData(storage', DateString(now))
                today == DerefData(Get(S.currentDayData), currentSession', repoActivityMap')
            IN  /\ \A s \in SessionsOf(today) : s.sessionId = currentSession'.sessionId
                /\ today.totalTime = 0
                /\ today.repositories = <<>>]_vars

\* the step is a run of stop() while tracking
StopStep ==
    /\ steps' = steps + 1 /\ now' = now
    /\ state.isTracking
    /\ World' = stop(World, now)

\* some file holds session `old` closed at instant t with the totals of that
\* instant and the context activity `repos`
ClosedOnDisk(S, old, t, repos) ==
    \E d \in DOMAIN S.files :
        /\ IsDefined(S.files[d])
        /\ \E s \in SessionsOf(Get(S.files[d])) :
              /\ s.sessionId = old.sessionId
              /\ s.endTime = Some(t)
              /\ s.totalDuration = t - old.startTime
              /\ s.activeTime + s.idleTime = s.totalDuration
              /\ s.repositories = repos

\* C11: when stop() or a day rollover completes, no debounce timer is
\* pending and a record on disk holds the closing session with its final
\* totals (up to that instant) and the context activity of the session.
C11_ShutdownFlush ==
    [][/\ StopStep
          => /\ ~IsDefined(storage'.saveDebounceTimer)
             /\ ClosedOnDisk(storage', currentSession, now,
                             DerefRepositories(MapValues(repoActivityMap'), repoActivityMap'))
       /\ (HeartbeatStep /\ DayChanged(World, now))
          => /\ ~IsDefined(storage'.saveDebounceTimer)
             /\ ClosedOnDisk(storage', currentSession, now,
                             DerefRepositories(MapValues(repoActivityMap), repoActivityMap))]_vars

\* C12: a saveTodayData call writes no file and leaves one timer, due one
\* debounce window after the call, on the record passed; calls less than a
\* window apart are thus followed by one write, made when the timer of the
\* last call falls due and not before, of the record as it is at that moment.
C12_DebounceCoalescing ==
    [][/\ (HeartbeatStep /\ ~DayChanged(World, now))
          => /\ storage'.files = storage.files
             /\ IsDefined(storage'.saveDebounceTimer)
             /\ Get(storage'.saveDebounceTimer).current
             /\ Get(storage'.saveDebounceTimer).due = now + saveDebounceMs
       /\ (IsDefined(storage.saveDebounceTimer) /\ now' > now)
          => IF Get(storage.saveDebounceTimer).due <= now'
             THEN LET d == TimerData(storage)
                  IN  /\ storage'.files =
                             [storage.files EXCEPT ![d.date] =
                                 Some(DerefData(d, currentSession, repoActivityMap))]
                      /\ ~IsDefined(storage'.saveDebounceTimer)
             ELSE storage' = storage]_vars
\* a pending timer that stands for calls made at different instants
C12_Witness ==
    /\ IsDefined(storage.saveDebounceTimer)
    /\ Get(storage.saveDebounceTimer).current
    /\ Get(storage.saveDebounceTimer).since + saveDebounceMs < Get(storage.saveDebounceTimer).due
    /\ state.isTracking

\* C13: the write a pending timer will make comes within one debounce
\* interval of every saveTodayData call it stands for, the first included.
C13_BoundedLag ==
    IsDefined(storage.saveDebounceTimer)
        => Get(storage.saveDebounceTimer).due
               <= Get(storage.saveDebounceTimer).since + saveDebounceMs

\* totalTime of the record of date d as the aggregation is to see it: of the
\* record in memory when that is today's, else of the file's record
DayTotal(S, d) ==
    IF IsDefined(S.currentDayData) /\ Get(S.currentDayData).date = d
    THEN Get(S.currentDayData).totalTime
    ELSE loadDailyData(S, d).totalTime
RECURSIVE SumDayTotals(_, _)
SumDayTotals(S, dates) ==
    IF dates = {} THEN 0
    ELSE LET d == CHOOSE e \in dates : TRUE
         IN  DayTotal(S, d) + SumDayTotals(S, dates \ {d})
\* the storage layer with no record of the date, in memory or on disk
WithoutDate(S, d) ==
    [S EXCEPT !.currentDayData = Undefined, !.saveDebounceTimer = Undefined,
              !.files[d] = Undefined]

\* C14: getAggregateTotals counts each date once: overall is the sum of
\* totalTime over the dates, today's taken from memory; and today's record
\* adds exactly its in-memory totalTime to overall and to every window, that
\* is, each total is what it would be without today's record plus that.
C14_AggregateDedup ==
    [][totals' # totals
         => LET tz == Get(totals').tz
                r == Get(totals').totals
                today == DateString(now)
                mine == DayTotal(storage, today)
                base == getAggregateTotals(WithoutDate(storage, today), now, tz).totals
            IN  /\ r.overall = SumDayTotals(storage, DOMAIN storage.files)
                /\ r.overall = base.overall + mine
                /\ r.last7Days = base.last7Days + mine
                /\ r.weekToDate = base.weekToDate + mine
                /\ r.monthToDate = base.monthToDate + mine
                /\ r.yearToDate = base.yearToDate + mine]_vars

\* C15: weekToDate is the sum of totalTime over the records dated on or
\* after the most recent Monday of the local calendar, last7Days the sum over
\* those dated on or after the sixth day before the local today.
C15_AggregateWindows ==
    [][totals' # totals
         => LET tz == Get(totals').tz
                r == Get(totals').totals
                today == LocalDay(now, tz)
                monday == today - ((DayOfWeek(today) + 6) % 7)
                dates == DOMAIN storage.files
            IN  /\ r.weekToDate = SumDayTotals(storage, {d \in dates : d >= monday})
                /\ r.last7Days = SumDayTotals(storage, {d \in dates : d >= today - 6})]_vars

\* the step is a run of the retention pass
CleanupStep ==
    /\ storage' = cleanupOldData(storage, now)
    /\ UNCHANGED <<now, steps, state, currentSession, repoActivityMap, heartbeatInterval,
                   nextSessionId, activeTextEditor, pending, rollovers, totals, report, mail>>
\* the number of days the date lies before today
DaysBefore(date) == DateString(now) - date

C17_CleanupFailSafe ==
    [][CleanupStep
         => /\ storage'.strays = storage.strays
            /\ storage.strays # {}
                  => \A d \in DOMAIN storage.files :
                        DaysBefore(d) >= retentionDays + 1 => ~IsDefined(storage'.files[d])]_vars
\* the stray files are there and the expired record files are gone
C17_Witness ==
    /\ DOMAIN storage.files = ArchiveDates
    /\ storage.strays = StrayFiles
    /\ \A d \in ArchiveDates :
          DaysBefore(d) >= retentionDays + 1 => ~IsDefined(storage.files[d])

C19_WriteFailureRecovery ==
    [][/\ (now' > now /\ IsDefined(storage.saveDebounceTimer)
              /\ Get(storage.saveDebounceTimer).due <= now' /\ ~storage.writable)
          => /\ storage'.currentDayData = storage.currentDayData
             /\ storage'.files = storage.files
             /\ storage'.writeLog = "failed"
       /\ (storage.writeLog = "failed" /\ storage'.writeLog = "recovered")
          => IF now' > now
             THEN LET d == TimerData(storage)
                  IN  storage'.files[d.date] =
                          Some(DerefData(d, currentSession, repoActivityMap))
             ELSE LET d == Get(storage'.currentDayData)
                  IN  storage'.files[d.date] =
                          Some(DerefData(d, currentSession', repoActivityMap'))]_vars
\* a write has failed and a later one succeeded; the file holds the session
\* with the time it went on accumulating after the failure
C19_Witness ==
    /\ storage.writeLog = "recovered"
    /\ IsDefined(storage.currentDayData)
    /\ LET d == Get(storage.currentDayData)
       IN  /\ IsDefined(storage.files[d.date])
           /\ Get(storage.files[d.date]).totalTime > idleThresholdMs
           /\ Get(storage.files[d.date]) = DerefData(d, currentSession, repoActivityMap)

\* C20: within a session no step lowers a context's timeSpent, a language
\* total of a context, or sessionIdleTime, whichever way the clock has moved
\* between the events.
C20_MonotonicAccumulators ==
    [][currentSession'.sessionId = currentSession.sessionId
         => /\ state'.sessionIdleTime >= state.sessionIdleTime
            /\ \A i \in 1..Len(repoActivityMap) :
                  LET a == repoActivityMap[i]
                      j == MapIndex(repoActivityMap', KeyOf(a.repoPath, a.branchName))
                  IN  /\ j > 0
                      /\ repoActivityMap'[j].timeSpent >= a.timeSpent
                      /\ \A l \in DOMAIN a.languages :
                            LangGet(repoActivityMap'[j].languages, l) >= a.languages[l]]_vars

\* C21: getCurrentSession called a second time at the same instant, no event
\* between, returns the session the first call returned (totals and
\* repositories alike), and neither call changes the TrackingState or the
\* context-activity map.
C21_MaterializeIdempotent ==
    LET W1 == getCurrentSession(World, now)
        W2 == getCurrentSession(W1, now)
        Returned(W) == DerefSession(W.currentSession, W.currentSession, W.repoActivityMap)
    IN  /\ Returned(W2) = Returned(W1)
        /\ W2.currentSession = W1.currentSession
        /\ W1.state = state /\ W2.state = state
        /\ W1.repoActivityMap = repoActivityMap /\ W2.repoActivityMap = repoActivityMap
\* the session as getCurrentSession has left it (totals set, never saved),
\* with time billed to a context
C21_Witness ==
    /\ state.isTracking
    /\ ~IsDefined(currentSession.endTime)
    /\ currentSession.totalDuration > 0
    /\ Len(currentSession.repositories) > 0
    /\ SumTimeSpent(DerefRepositories(currentSession.repositories, repoActivityMap)) > 0
    /\ getCurrentSession(World, now).currentSession = currentSession

\* the sessions of the record that an earlier run has left: those in today's
\* file that are not the current session
EarlierSessions(S, today, cs) ==
    IF IsDefined(S.files[today]) /\ Parses(Get(S.files[today]))
    THEN {s \in SessionsOf(Get(S.files[today])) : s.sessionId # cs.sessionId}
    ELSE {}
RECURSIVE SumDurations(_)
SumDurations(ss) ==
    IF ss = {} THEN 0
    ELSE LET s == CHOOSE x \in ss : TRUE IN s.totalDuration + SumDurations(ss \ {s})

\* C22: while a run started after a stop on the same date is tracking, no
\* step other than the reset-today command changes or removes a session an
\* earlier run has left in today's file; and a file written for today holds
\* each session id once, the new run's among them, with totalTime the sum of
\* the totalDuration of its sessions.
C22_NoLossAcrossRestart ==
    [][(/\ state.isTracking
        /\ DateString(currentSession.startTime) = DateString(now)
        /\ now' = now
        /\ ~ResetStep)
         => LET today == DateString(now)
                before == EarlierSessions(storage, today, currentSession)
                after == EarlierSessions(storage', today, currentSession')
            IN  /\ before \subseteq after
                /\ (storage'.files[today] # storage.files[today] /\ before # {})
                      => LET d == Get(storage'.files[today])
                         IN  /\ \A i, j \in 1..Len(d.sessions) :
                                   d.sessions[i].sessionId = d.sessions[j].sessionId => i = j
                             /\ \E s \in SessionsOf(d) : s.sessionId = currentSession'.sessionId
                             /\ d.totalTime = SumDurations(SessionsOf(d))]_vars

\* a process started after a stop on the same date has saved its session:
\* today's file holds the earlier run's session and the new one, each with
\* time of its own
C22_Witness ==
    /\ currentSession.sessionId > 2
    /\ DateString(currentSession.startTime) = DateString(FirstInstant)
    /\ IsDefined(storage.files[DateString(now)])
    /\ LET d == Get(storage.files[DateString(now)])
       IN  /\ Len(d.sessions) = 2
           /\ d.sessions[1].sessionId = 2 /\ d.sessions[1].totalDuration > 0
           /\ d.sessions[2].sessionId = currentSession.sessionId
           /\ d.sessions[2].totalDuration > 0
           /\ d.totalTime = d.sessions[1].totalDuration + d.sessions[2].totalDuration

\* C23: every record on disk equals the record recomputed from its own
\* session list: totalTime, activeTime, idleTime, and the merged repositories
\* and languages are the fold of the sessions stored in the same file.
C23_PersistedRoundTrip ==
    \A d \in PersistedRecords : recalculateTotals(d, currentSession, repoActivityMap) = d

\* the step is a run of start() on a tracker that has been stopped before
RestartStep ==
    /\ steps' = steps + 1 /\ now' = now
    /\ ~state.isTracking /\ nextSessionId > 2
    /\ \E hasFolder \in BOOLEAN : World' = start(World, now, activeTextEditor, hasFolder)

\* C24: a start() that follows a stop(), the one inside the reset-today
\* command included, leaves the tracker tracking and not idle, with
\* sessionIdleTime 0, no idleStartTime, an empty context-activity map, and a
\* current session with a new id and zero totals.
C24_StartInitializes ==
    [][(RestartStep \/ ResetStep)
         => /\ state'.isTracking
            /\ ~state'.isIdle
            /\ state'.sessionIdleTime = 0
            /\ ~IsDefined(state'.idleStartTime)
            /\ repoActivityMap' = <<>>
            /\ currentSession'.sessionId = nextSessionId
            /\ currentSession'.totalDuration = 0
            /\ currentSession'.activeTime = 0
            /\ currentSession'.idleTime = 0
            /\ currentSession'.repositories = <<>>]_vars

\* the step completes the identity resolution of an editor change, the last
\* one in flight, and a repository is found
LastResolutionStep ==
    /\ steps' = steps + 1 /\ now' = now
    /\ state.isTracking
    /\ Len(pending) = 1 /\ IsDefined(pending[1].editor)
    /\ World' = resumeUpdateCurrentRepo([World EXCEPT !.pending = <<>>], pending[1], "repo",
                                        now, activeTextEditor)

\* C25: once the identity resolutions of the editor changes have all
\* completed, in whatever order, the current context is the repository of
\* the editor of the last change (the active editor), with its language and
\* its file as active file.
C25_EventOrdering ==
    [][(LastResolutionStep /\ IsDefined(activeTextEditor))
         => LET repo == Get(state'.currentRepo)
                file == Get(activeTextEditor)
            IN  /\ repo.path = RepoRootOf(file)
                /\ repo.language = Some(LanguageIdOf(file))
                /\ repo.activeFile = Some(file)]_vars

\* the time the record gives for the repository or language of a report line
RepoTimeOf(d, name) ==
    d.repositories[FindIndex(d.repositories, LAMBDA r : r.repoPath = name)].totalTime

\* C26: the report lists the repositories of the record, each once, in
\* non-increasing order of totalTime, and its languages, each once, in
\* non-increasing order of time; sessionCount is the number of sessions of the
\* record.
C26_ReportOrdering ==
    IsDefined(report)
        => LET d == Get(report).input
               r == Get(report).data
           IN  /\ Len(r.repositories) = Len(d.repositories)
               /\ \A k \in 1..Len(d.repositories) :
                     \E i \in 1..Len(r.repositories) : r.repositories[i].name = d.repositories[k].repoPath
               /\ \A i, j \in 1..Len(r.repositories) :
                     i < j => RepoTimeOf(d, r.repositories[i].name)
                                 >= RepoTimeOf(d, r.repositories[j].name)
               /\ Len(r.languages) = Cardinality(DOMAIN d.languages)
               /\ \A l \in DOMAIN d.languages :
                     \E i \in 1..Len(r.languages) : r.languages[i].name = l
               /\ \A i, j \in 1..Len(r.languages) :
                     i < j => d.languages[r.languages[i].name] >= d.languages[r.languages[j].name]
               /\ r.sessionCount = Len(d.sessions)
\* a record with its three repositories and three languages in increasing
\* order of time, and the report made from it
C26_Witness ==
    /\ IsDefined(report)
    /\ LET d == Get(report).input
           r == Get(report).data
       IN  /\ Len(d.repositories) = 3
           /\ d.repositories[1].totalTime < d.repositories[2].totalTime
           /\ d.repositories[2].totalTime < d.repositories[3].totalTime
           /\ r.repositories[1].name = d.repositories[3].repoPath
           /\ r.repositories[3].name = d.repositories[1].repoPath
           /\ Len(r.languages) = 3
           /\ d.languages[ReportLanguages[1]] < d.languages[ReportLanguages[2]]
           /\ d.languages[ReportLanguages[2]] < d.languages[ReportLanguages[3]]
           /\ r.languages[1].name = ReportLanguages[3]
           /\ r.languages[1].hours = 1 /\ r.languages[1].minutes = 1
           /\ r.sessionCount = 2

\* the step is the handling of an activity event while tracking: a text
\* change, a focus gain, an editor change, or a save
ActivityStep ==
    /\ steps' = steps + 1 /\ now' = now
    /\ state.isTracking
    /\ \/ World' = recordActivity(World, now)
       \/ World' = handleWindowStateChange(World, TRUE, now)
       \/ World' = handleEditorChange(World, activeTextEditor', now)
       \/ /\ IsDefined(activeTextEditor)
          /\ World' = recordFileEdit(recordActivity(World, now), Get(activeTextEditor))

\* C27: an activity event handled in the Idle state leaves the engine
\* Active, has added now - idleStartTime to sessionIdleTime, once, and has
\* cleared idleStartTime.
C27_ActivityEndsIdle ==
    [][(ActivityStep /\ state.isIdle)
         => /\ ~state'.isIdle
            /\ IsDefined(state.idleStartTime)
            /\ state'.sessionIdleTime = state.sessionIdleTime + (now - Get(state.idleStartTime))
            /\ ~IsDefined(state'.idleStartTime)]_vars
\* an idle interval of one second more than the threshold, closed by an
\* activity event
C27_Witness ==
    /\ state.isTracking
    /\ ~state.isIdle
    /\ state.sessionIdleTime = idleThresholdMs + 1
    /\ state.lastActivityTime = now
    /\ ~IsDefined(state.idleStartTime)

\* the languages of the RepoActivity with the key, none when the map has none
LanguagesOf(map, key) ==
    IF MapIndex(map, key) = 0 THEN EmptyLanguages ELSE map[MapIndex(map, key)].languages
KeysOf(map) == {KeyOf(map[i].repoPath, map[i].branchName) : i \in 1..Len(map)}

\* C28: an activity event handled at instant now sets lastActivityTime to
\* now; with a current context it has added now - lastActivityTime (the old
\* value) to the timeSpent of that context and, when the context has a
\* language, to that language's total there, and nothing to any other entry;
\* with no current context it has billed nothing.
C28_RecordActivityBilling ==
    [][ActivityStep
         => /\ state'.lastActivityTime = now
            /\ IF IsDefined(state.currentRepo)
               THEN LET repo == Get(state.currentRepo)
                        key == KeyOf(repo.path, repo.branch)
                        elapsed == now - state.lastActivityTime
                    IN  /\ KeysOf(repoActivityMap') = KeysOf(repoActivityMap) \cup {key}
                        /\ TimeSpentOf(repoActivityMap', key)
                              = TimeSpentOf(repoActivityMap, key) + elapsed
                        /\ LanguagesOf(repoActivityMap', key)
                              = IF IsDefined(repo.language)
                                THEN LangAdd(LanguagesOf(repoActivityMap, key),
                                             Get(repo.language), elapsed)
                                ELSE LanguagesOf(repoActivityMap, key)
                        /\ \A k \in KeysOf(repoActivityMap) \ {key} :
                              /\ TimeSpentOf(repoActivityMap', k) = TimeSpentOf(repoActivityMap, k)
                              /\ LanguagesOf(repoActivityMap', k) = LanguagesOf(repoActivityMap, k)
               ELSE repoActivityMap' = repoActivityMap]_vars
\* a context with a language, billed by an activity event for the time since
\* the activity before
C28_Witness ==
    /\ state.isTracking
    /\ IsDefined(state.currentRepo)
    /\ state.lastActivityTime = now
    /\ LET repo == Get(state.currentRepo)
           key == KeyOf(repo.path, repo.branch)
       IN  /\ IsDefined(repo.language)
           /\ TimeSpentOf(repoActivityMap, key) = now - state.sessionStart
           /\ TimeSpentOf(repoActivityMap, key) > 0
           /\ LanguagesOf(repoActivityMap, key)
                 = LangAdd(EmptyLanguages, Get(repo.language), now - state.sessionStart)

\* C29: whenever the engine is Idle, idleStartTime is the lastActivityTime
\* the idle interval began at, and a step from Idle to Idle leaves
\* idleStartTime as it is.
C29_IdleAnchor ==
    [][/\ state'.isIdle => state'.idleStartTime = Some(state'.lastActivityTime)
       /\ (state.isIdle /\ state'.isIdle) => state'.idleStartTime = state.idleStartTime]_vars

\* the session with the id in the record, as a reader of the record sees it
SessionIn(d, id) ==
    LET i == FindIndex(d.sessions, LAMBDA s : s.sessionId = id)
    IN  IF i = 0 THEN Undefined ELSE Some(d.sessions[i])

\* C30: a heartbeat that runs while tracking leaves the session it found,
\* with totalDuration, activeTime and idleTime computed at the instant of the
\* heartbeat, in the day record and a write of it triggered: a debounce timer
\* pending on today's record, or, when the heartbeat found the date changed,
\* the file of the session's day written with it.
C30_HeartbeatRecomputes ==
    [][HeartbeatStep
         => LET old == currentSession
                Recomputed(s) ==
                    /\ IsDefined(s)
                    /\ Get(s).endTime = Some(now)
                    /\ Get(s).totalDuration = now - old.startTime
                    /\ Get(s).activeTime + Get(s).idleTime = Get(s).totalDuration
            IN  IF DayChanged(World, now)
                THEN LET f == storage'.files[DateString(old.startTime)]
                     IN  /\ IsDefined(f)
                         /\ Recomputed(SessionIn(Get(f), old.sessionId))
                ELSE /\ IsDefined(storage'.saveDebounceTimer)
                     /\ Get(storage'.saveDebounceTimer).current
                     /\ Get(storage'.saveDebounceTimer).due = now + saveDebounceMs
                     /\ Recomputed(SessionIn(DerefData(Get(storage'.currentDayData),
                                                       currentSession', repoActivityMap'),
                                             old.sessionId))]_vars

\* C31: the heartbeat that handles a day change leaves the tracker tracking
\* and not idle, with sessionIdleTime 0, no idleStartTime, an empty
\* context-activity map, and a current session with a new id, a start time
\* dated today and zero totals.
C31_StateAfterRollover ==
    [][(HeartbeatStep /\ DayChanged(World, now))
         => /\ state'.isTracking
            /\ ~state'.isIdle
            /\ state'.sessionIdleTime = 0
            /\ ~IsDefined(state'.idleStartTime)
            /\ repoActivityMap' = <<>>
            /\ currentSession'.sessionId # currentSession.sessionId
            /\ \A s \in SavedSessions : currentSession'.sessionId # s.sessionId
            /\ DateString(currentSession'.startTime) = DateString(now)
            /\ currentSession'.totalDuration = 0
            /\ currentSession'.activeTime = 0
            /\ currentSession'.idleTime = 0
            /\ currentSession'.repositories = <<>>]_vars
\* the state a rollover has left, the session it closed having been idle
\* and holding a context
C31_Witness ==
    /\ rollovers[DateString(now)] = 1
    /\ state.isTracking /\ ~state.isIdle
    /\ currentSession.startTime = now
    /\ ~IsDefined(currentSession.endTime)
    /\ repoActivityMap = <<>>
    /\ \E s \in SavedSessions :
          /\ s.sessionId # currentSession.sessionId
          /\ s.endTime = Some(now)
          /\ s.idleTime > 0
          /\ Len(s.repositories) > 0

\* the ids of the sessions of a session list are pairwise distinct
DistinctIds(ss) == \A i, j \in 1..Len(ss) : ss[i].sessionId = ss[j].sessionId => i = j

\* C32: updateSession(s) leaves in today's record exactly one entry with the
\* id of s, and that entry is s; an entry with that id is replaced where it
\* stood, otherwise s is appended at the end; the other entries are as they
\* were, in their order; and in every record the session ids are pairwise
\* distinct.
C32_UpsertById ==
    /\ \A d \in AllRecords : DistinctIds(d.sessions)
    /\ \A session \in UpsertCandidates :
          LET before == Get(getTodayData(storage, DateString(now)).currentDayData).sessions
              S1 == updateSession(storage, session, now, currentSession, repoActivityMap)
              after == Get(S1.currentDayData).sessions
              k == FindIndex(before, LAMBDA s : s.sessionId = session.sessionId)
          IN  /\ Get(S1.currentDayData).date = DateString(now)
              /\ Cardinality({i \in 1..Len(after) : after[i].sessionId = session.sessionId}) = 1
              /\ IF k > 0
                 THEN after = [before EXCEPT ![k] = session]
                 ELSE after = Append(before, session)
              /\ DistinctIds(after)
\* today's record holds the session of an earlier run and, after it, the
\* current session, which a later call has replaced where it stood
C32_Witness ==
    /\ IsDefined(storage.currentDayData)
    /\ LET d == Get(storage.currentDayData)
       IN  /\ d.date = DateString(now)
           /\ Len(d.sessions) = 2
           /\ d.sessions[1].sessionId < currentSession.sessionId
           /\ d.sessions[2] = SessionRef(currentSession)
           /\ currentSession.totalDuration > 0
           /\ d.totalTime > currentSession.totalDuration

\* the world in which the i-th call in flight has been taken up
TakenUp(i) ==
    [World EXCEPT !.pending =
        SubSeq(pending, 1, i - 1) \o SubSeq(pending, i + 1, Len(pending))]

\* the GitService answers the i-th call in flight with null
AbsentStep(i, outcome) ==
    /\ outcome \in {"folder", "none"}
    /\ World' = resumeUpdateCurrentRepo(TakenUp(i), pending[i], outcome, now, activeTextEditor)

\* C33: when the GitService answers null, updateCurrentRepo raises nothing and
\* bills nothing: with a first workspace folder the current context becomes
\* that folder with branch 'N/A' and startTime now; with none the current
\* context is what it was when updateCurrentRepo returns (handleEditorChange,
\* when it was the caller, then sets language and activeFile only).
C33_AbsentIdentity ==
    [][\A i \in 1..Len(pending), outcome \in {"folder", "none"} :
         AbsentStep(i, outcome) =>
            LET after == updateCurrentRepoAfterAwait(TakenUp(i), pending[i], outcome,
                                                     now, activeTextEditor)
            IN  /\ repoActivityMap' = repoActivityMap
                /\ currentSession' = currentSession
                /\ storage' = storage
                /\ [state' EXCEPT !.currentRepo = Undefined]
                      = [state EXCEPT !.currentRepo = Undefined]
                /\ outcome = "folder" =>
                      /\ IsDefined(after.state.currentRepo)
                      /\ IsDefined(state'.currentRepo)
                      /\ \A r \in {Get(after.state.currentRepo), Get(state'.currentRepo)} :
                            /\ r.path = WorkspaceFolder
                            /\ r.branch = "N/A"
                            /\ r.startTime = now
                /\ outcome = "none" =>
                      /\ after.state.currentRepo = state.currentRepo
                      /\ IsDefined(state'.currentRepo) = IsDefined(state.currentRepo)
                      /\ IsDefined(state.currentRepo) =>
                            /\ Get(state'.currentRepo).path = Get(state.currentRepo).path
                            /\ Get(state'.currentRepo).branch = Get(state.currentRepo).branch
                            /\ Get(state'.currentRepo).startTime
                                  = Get(state.currentRepo).startTime]_vars
\* a repository was the context and had been billed, and a later null answer
\* has made the workspace folder the context
C33_Witness ==
    /\ state.isTracking
    /\ pending = <<>>
    /\ IsDefined(state.currentRepo)
    /\ Get(state.currentRepo).path = WorkspaceFolder
    /\ Get(state.currentRepo).branch = "N/A"
    /\ Get(state.currentRepo).startTime > state.sessionStart
    /\ \E k \in 1..Len(repoActivityMap) :
          /\ repoActivityMap[k].branchName # "N/A"
          /\ repoActivityMap[k].timeSpent > 0

\* what a heartbeat or a stop() must leave alone once tracking has stopped
QuiescentPart(W) ==
    [state |-> W.state, currentSession |-> W.currentSession,
     repoActivityMap |-> W.repoActivityMap, storage |-> W.storage,
     heartbeatInterval |-> W.heartbeatInterval]

\* C34: stop() leaves isTracking false; whenever tracking is stopped neither
\* the heartbeat timer nor the debounce timer is pending, and a heartbeat or
\* a further stop() arriving then changes neither TrackingState, the session,
\* the context-activity map nor the storage with its files.
C34_StoppedIsQuiescent ==
    /\ [](~state.isTracking =>
            /\ ~heartbeatInterval
            /\ ~IsDefined(storage.saveDebounceTimer)
            /\ QuiescentPart(heartbeat(World, now)) = QuiescentPart(World)
            /\ QuiescentPart(stop(World, now)) = QuiescentPart(World))
    /\ [][StopStep => ~state'.isTracking]_vars
\* tracking was stopped while an answer of the GitService was outstanding,
\* and the file of the day holds the session the stop closed
C34_Witness ==
    /\ ~state.isTracking
    /\ nextSessionId > 2
    /\ pending # <<>>
    /\ IsDefined(currentSession.endTime)
    /\ currentSession.totalDuration > 0
    /\ IsDefined(storage.files[DateString(now)])
    /\ \E i \in 1..Len(Get(storage.files[DateString(now)]).sessions) :
          LET s == Get(storage.files[DateString(now)]).sessions[i]
          IN  s.sessionId = currentSession.sessionId /\ s.endTime = currentSession.endTime

\* the file of date d holds a record marked as sent
FlagOnDisk(S, d) ==
    /\ IsDefined(S.files[d])
    /\ Parses(Get(S.files[d]))
    /\ Get(S.files[d]).emailSent

\* C35: however the calls of sendDailyReport interleave, the report of a
\* date is delivered at most once, and when a call has delivered the report
\* of date d the file of d holds emailSent = true as the call returns.
C35_OneReportPerDate ==
    /\ [](\A d \in Dates : mail.sent[d] <= 1)
    /\ [][\A d \in Dates : mail'.sent[d] > mail.sent[d] => FlagOnDisk(storage', d)]_vars

\* the flags of the record getTodayData returns at instant t
ReportFlags(S, t) ==
    LET d == Get(getTodayData(S, DateString(t)).currentDayData)
    IN  [date |-> d.date, emailSent |-> d.emailSent, emailSentAt |-> d.emailSentAt]

\* C36: updateSession leaves date, emailSent and emailSentAt of today's record
\* as they were, whatever session it is given; and over any step of the
\* tracker or the clock on the same date (a heartbeat, a stop, a start, a
\* debounced write) a record marked as sent stays marked, with the same
\* emailSentAt, in memory and in its file.
C36_FlagsKept ==
    /\ [](\A session \in UpsertCandidates :
            ReportFlags(updateSession(storage, session, now, currentSession,
                                      repoActivityMap), now)
                = ReportFlags(storage, now))
    /\ [][(/\ ReportFlags(storage, now).emailSent
            /\ DateString(now') = DateString(now)
            /\ mail' = mail)
            => /\ ReportFlags(storage', now') = ReportFlags(storage, now)
               /\ FlagOnDisk(storage, DateString(now))
                     => FlagOnDisk(storage', DateString(now))]_vars
\* the report of today was sent, and a later heartbeat has put the session
\* into the marked record
C36_Witness ==
    /\ IsDefined(storage.currentDayData)
    /\ Get(storage.currentDayData).date = DateString(now)
    /\ Get(storage.currentDayData).emailSent
    /\ FlagOnDisk(storage, DateString(now))
    /\ IsDefined(storage.saveDebounceTimer)
    /\ Get(storage.saveDebounceTimer).since > Get(Get(storage.currentDayData).emailSentAt)
    /\ Get(storage.currentDayData).totalTime
          > Get(storage.files[DateString(now)]).totalTime

\* C37: every session handed to storage has 0 <= idleTime <= totalDuration
\* and activeTime >= 0.
C37_SessionTotalsInRange ==
    \A s \in SavedSessions :
        /\ 0 <= s.idleTime
        /\ s.idleTime <= s.totalDuration
        /\ s.activeTime >= 0

\* C38: while the session stays the same, the idleTime computed for it never
\* decreases; and a step that returns the engine from Idle to Active adds to
\* sessionIdleTime the whole idle interval, from the last activity before it
\* to the instant of the step.
C38_IdleTimeMonotonic ==
    [][currentSession'.sessionId = currentSession.sessionId
         => /\ currentSession'.idleTime >= currentSession.idleTime
            /\ (state.isIdle /\ ~state'.isIdle)
                  => state'.sessionIdleTime
                        = state.sessionIdleTime + (now - state.lastActivityTime)]_vars

\* the record a pending debounced write is for, as it is after the step
PendingRecordAfter ==
    LET R == TimerData(storage)
    IN  IF IsDefined(storage'.currentDayData) /\ Get(storage'.currentDayData).date = R.date
        THEN Get(storage'.currentDayData)
        ELSE R

\* C39: when a debounced write of record R is pending and a handler that
\* ends with forceSave runs (stop(), or the heartbeat that handles a day
\* change), the file of R's date holds R's latest state afterwards, also when
\* R is no longer the current-day record.
C39_ForceSaveKeepsPending ==
    [][(/\ IsDefined(storage.saveDebounceTimer)
        /\ StopStep \/ (HeartbeatStep /\ DayChanged(World, now)))
         => storage'.files[TimerData(storage).date]
               = Some(DerefData(PendingRecordAfter, currentSession', repoActivityMap'))]_vars

\* the windows lie within one another
Nested(a) ==
    /\ a.weekToDate <= a.last7Days
    /\ a.last7Days <= a.overall
    /\ a.monthToDate <= a.yearToDate
    /\ a.yearToDate <= a.overall

\* the instants the aggregation is tried at: 02:00 and 22:00 UTC of every date
\* of the archive after 1970-01-01 (a Monday, a Tuesday, two Wednesdays, a
\* Sunday; in January, March and April)
AggregationInstants ==
    {d * SecondsPerDay + h * 60 * SecondsPerMinute : d \in ArchiveDates \ {0}, h \in {2, 22}}

\* C40: over any day records (their totalTime is never negative) and at any
\* instant, in any time zone, getAggregateTotals returns
\* weekToDate <= last7Days <= overall and monthToDate <= yearToDate <= overall.
C40_WindowsNested ==
    /\ \A d \in AllRecords : d.totalTime >= 0
    /\ IsDefined(totals) => Nested(Get(totals).totals)
    /\ \A t \in AggregationInstants, tz \in TimeZones :
          Nested(getAggregateTotals(storage, t, tz).totals)
\* totals in which the week is a part of the last seven days, these a part
\* of all days, and the month a part of the year
C40_Witness ==
    /\ IsDefined(totals)
    /\ LET a == Get(totals).totals
       IN  /\ 0 < a.weekToDate /\ a.weekToDate < a.last7Days /\ a.last7Days < a.overall
           /\ 0 < a.monthToDate /\ a.monthToDate < a.yearToDate

====
